---- MODULE Spec2Model ----
(***************************************************************************)
(* A model of the JWT engine of daily-tools (lib/jwt-utils.ts): decodeJwt, *)
(* encodeJwt, verifyJwtSignature, signJwt and base64UrlEncode, together    *)
(* with the platform functions they call (atob, btoa, TextEncoder,         *)
(* JSON.parse, JSON.stringify, String.prototype.split); the claim          *)
(* evaluator, getAlgorithmDescription and generateSampleJwt; the           *)
(* decode-only variant of the module; and the decoder effect of the JWT    *)
(* debugger page.                                                          *)
(*                                                                         *)
(* A JavaScript string is a sequence of UTF-16 code units (naturals); a    *)
(* byte string is a sequence of naturals below 256.  A JSON value is a     *)
(* record tagged by t: "null", "bool" (b), "num" (a double, see Numbers),  *)
(* "str" (s), "arr" (a) and "obj" (m, the sequence of <<key, value>> pairs *)
(* in property order).  undefined is the value Undefined.                  *)
(***************************************************************************)
EXTENDS Integers, Sequences, FiniteSets, TLC

(***************************************************************************)
(* Text literals.                                                          *)
(***************************************************************************)
\* The printable ASCII characters from code 32 (space) to code 95 (_).
AsciiLow ==
  " !\"#$%&'()*+,-./0123456789:;<=>?@ABCDEFGHIJKLMNOPQRSTUVWXYZ[\\]^_"

\* The printable ASCII characters from code 97 (a) to code 126 (~).
AsciiHigh == "abcdefghijklmnopqrstuvwxyz{|}~"

\* The code unit of a one-character literal.
Code(c) ==
  IF \E i \in 1..Len(AsciiLow) : SubSeq(AsciiLow, i, i) = c
  THEN 31 + (CHOOSE i \in 1..Len(AsciiLow) : SubSeq(AsciiLow, i, i) = c)
  ELSE 96 + (CHOOSE i \in 1..Len(AsciiHigh) : SubSeq(AsciiHigh, i, i) = c)

\* The JavaScript string (sequence of code units) written by a literal.
S(str) == [i \in 1..Len(str) |-> Code(SubSeq(str, i, i))]

RECURSIVE Concat(_)
\* The concatenation of a sequence of strings (by halves, so the nesting of
\* the evaluation grows with the logarithm of the length).
Concat(ss) ==
  IF ss = <<>> THEN <<>>
  ELSE IF Len(ss) = 1 THEN ss[1]
  ELSE LET mid == Len(ss) \div 2 IN
         Concat(SubSeq(ss, 1, mid)) \o Concat(SubSeq(ss, mid + 1, Len(ss)))

(***************************************************************************)
(* JSON values.                                                            *)
(***************************************************************************)
Undefined == [t |-> "undefined"]
JNull == [t |-> "null"]
JBool(b) == [t |-> "bool", b |-> b]
JStr(s) == [t |-> "str", s |-> s]
JArr(a) == [t |-> "arr", a |-> a]
JObj(m) == [t |-> "obj", m |-> m]

(***************************************************************************)
(* Numbers.  A JavaScript number is an IEEE 754 double.  A finite double   *)
(* is a decimal fraction, and the model keeps its exact decimal expansion: *)
(* an integer of magnitude at most 2^31 - 1 is   [t |-> "num", n |-> n];   *)
(* every other finite number but -0 is [t |-> "num", neg, d, q], the       *)
(* number (-1)^neg * d * 10^q where d is a natural number written as its   *)
(* decimal digits, the first and the last of them not 0; NaN, Infinity,    *)
(* -Infinity and -0 are [t |-> "num", special |-> name].  Each double has  *)
(* one representation, so two numbers are the same value (Object.is)       *)
(* exactly when their records are equal.  Natural numbers beyond the       *)
(* integers of the checker are sequences of decimal digits, most           *)
(* significant first, <<>> for 0.                                          *)
(***************************************************************************)
\* The number of an integer of magnitude at most 2^31 - 1.
JNum(n) == [t |-> "num", n |-> n]

NaN == [t |-> "num", special |-> "NaN"]
PlusInfinity == [t |-> "num", special |-> "Infinity"]
MinusInfinity == [t |-> "num", special |-> "-Infinity"]
MinusZero == [t |-> "num", special |-> "-0"]

IsSmall(v) == "n" \in DOMAIN v
IsSpecial(v) == "special" \in DOMAIN v
IsNaN(v) == v = NaN

\* The zero and the infinity of a sign.
SignedZero(neg) == IF neg THEN MinusZero ELSE [t |-> "num", n |-> 0]
SignedInfinity(neg) == IF neg THEN MinusInfinity ELSE PlusInfinity

Abs(n) == IF n < 0 THEN 0 - n ELSE n
Max(a, b) == IF a > b THEN a ELSE b
Min(a, b) == IF a < b THEN a ELSE b

\* The sequence of k zeros.
Zeros(k) == [i \in 1..k |-> 0]

\* A digit sequence without its leading zeros.
StripLeading(ds) ==
  LET nz == {i \in 1..Len(ds) : ds[i] # 0} IN
    IF nz = {} THEN <<>>
    ELSE SubSeq(ds, CHOOSE i \in nz : \A j \in nz : i <= j, Len(ds))

\* The number of zeros at the end of a digit sequence that is not all zeros.
TrailingZeros(ds) ==
  LET nz == {Len(ds) - i : i \in {j \in 1..Len(ds) : ds[j] # 0}} IN
    CHOOSE k \in nz : \A j \in nz : k <= j

RECURSIVE DigitsOfNat(_)
\* The decimal digits of a natural number of the checker.
DigitsOfNat(n) == IF n = 0 THEN <<>> ELSE Append(DigitsOfNat(n \div 10), n % 10)

RECURSIVE NatOfDigits(_)
\* The natural number written by at most ten digits that is at most
\* 2^31 - 1.
NatOfDigits(ds) ==
  IF ds = <<>> THEN 0 ELSE 10 * NatOfDigits(SubSeq(ds, 1, Len(ds) - 1)) + ds[Len(ds)]

\* -1, 0 or 1 as the natural number a is below, equal to or above b; both
\* without leading zeros.
CompareNat(a, b) ==
  IF Len(a) # Len(b) THEN (IF Len(a) < Len(b) THEN -1 ELSE 1)
  ELSE LET diff == {i \in 1..Len(a) : a[i] # b[i]} IN
    IF diff = {} THEN 0
    ELSE LET i == CHOOSE k \in diff : \A j \in diff : k <= j IN
           IF a[i] < b[i] THEN -1 ELSE 1

RECURSIVE MulAddW(_, _, _)
\* ds * c + a for 0 <= a < c <= 2^27: the low Len(ds) digits d and the rest
\* of the number, carry (by halves).
MulAddW(ds, c, a) ==
  IF Len(ds) = 0 THEN [carry |-> a, d |-> <<>>]
  ELSE IF Len(ds) = 1
  THEN [carry |-> (ds[1] * c + a) \div 10, d |-> <<(ds[1] * c + a) % 10>>]
  ELSE LET h == Len(ds) \div 2
           lo == MulAddW(SubSeq(ds, h + 1, Len(ds)), c, a)
       IN IF lo.carry < 0 THEN lo
          ELSE LET hi == MulAddW(SubSeq(ds, 1, h), c, lo.carry) IN
                 [carry |-> hi.carry, d |-> hi.d \o lo.d]

\* The natural number of the digits r.d below the number r.carry.
WithCarry(r) == StripLeading(DigitsOfNat(r.carry) \o r.d)

\* ds * c + a as a natural number.
MulAdd(ds, c, a) == WithCarry(MulAddW(ds, c, a))

RECURSIVE DivW(_, _, _)
\* (r * 10^Len(ds) + ds) divided by c for 0 <= r < c <= 2^27: the Len(ds)
\* digits q of the quotient and the remainder r (by halves).
DivW(ds, c, r) ==
  IF Len(ds) = 0 THEN [q |-> <<>>, r |-> r]
  ELSE IF Len(ds) = 1
  THEN [q |-> <<(10 * r + ds[1]) \div c>>, r |-> (10 * r + ds[1]) % c]
  ELSE LET h == Len(ds) \div 2
           hi == DivW(SubSeq(ds, 1, h), c, r)
       IN IF hi.r < 0 THEN hi
          ELSE LET lo == DivW(SubSeq(ds, h + 1, Len(ds)), c, hi.r) IN
                 [q |-> hi.q \o lo.q, r |-> lo.r]

\* A natural number and whether anything was discarded in reaching it.
Inexact(ds, sticky) == [d |-> ds, sticky |-> sticky]

\* The quotient of a division r by DivW, sticky when the dividend was or
\* the division left a remainder.
Quotient(r, sticky) == Inexact(StripLeading(r.q), sticky \/ r.r # 0)

\* The floor of x.d / c, sticky when x is or the division is inexact.
DivSmall(x, c) == Quotient(DivW(x.d, c, 0), x.sticky)

\* The largest power of the base, two or five, that MulAddW and DivW take.
Chunk(base) == IF base = 2 THEN 27 ELSE 11

RECURSIVE MulPow(_, _, _, _)
\* ds * base^k, chunk powers at a time.
MulPow(ds, base, chunk, k) ==
  IF k <= 0 \/ ds = <<>> THEN StripLeading(ds)
  ELSE MulPow(MulAdd(ds, base ^ Min(k, chunk), 0), base, chunk, k - Min(k, chunk))

RECURSIVE DivPow2(_, _)
\* The floor of x.d / 2^k.
DivPow2(x, k) ==
  IF k <= 0 \/ x.d = <<>> THEN Inexact(StripLeading(x.d), x.sticky)
  ELSE DivPow2(DivSmall(x, 2 ^ Min(k, Chunk(2))), k - Min(k, Chunk(2)))

\* The floor of ds / 10^k.
DropDigits(ds, k) ==
  IF k >= Len(ds) THEN Inexact(<<>>, ds # <<>>)
  ELSE Inexact(SubSeq(ds, 1, Len(ds) - k),
               \E i \in (Len(ds) - k + 1)..Len(ds) : ds[i] # 0)

RECURSIVE AddW(_, _, _)
\* a + b + carry for digit sequences of one length: the low digits and the
\* carry out (by halves).
AddW(a, b, carry) ==
  IF Len(a) = 0 THEN [carry |-> carry, d |-> <<>>]
  ELSE IF Len(a) = 1
  THEN [carry |-> (a[1] + b[1] + carry) \div 10, d |-> <<(a[1] + b[1] + carry) % 10>>]
  ELSE LET h == Len(a) \div 2
           lo == AddW(SubSeq(a, h + 1, Len(a)), SubSeq(b, h + 1, Len(b)), carry)
       IN IF lo.carry < 0 THEN lo
          ELSE LET hi == AddW(SubSeq(a, 1, h), SubSeq(b, 1, h), lo.carry) IN
                 [carry |-> hi.carry, d |-> hi.d \o lo.d]

\* A digit sequence padded with leading zeros to length k.
PadTo(ds, k) == Zeros(k - Len(ds)) \o ds

\* a + b
AddNat(a, b) ==
  WithCarry(AddW(PadTo(a, Max(Len(a), Len(b))), PadTo(b, Max(Len(a), Len(b))), 0))

\* The nines' complement of b in k digits.
Nines(b, k) == [i \in 1..k |-> 9 - PadTo(b, k)[i]]

\* a - b for a >= b: a plus the nines' complement of b plus one, without
\* the carry out.
SubNat(a, b) == StripLeading(AddW(a, Nines(b, Len(a)), 1).d)

\* The digits of 2^k for the k around the width of a significand.
PowersOfTwo == [k \in 53..62 |-> MulPow(<<1>>, 2, Chunk(2), k)]

\* The number (-1)^neg * d * 10^e, which is a double, for digits d of which
\* the first and the last are not 0.
MakeTrimmed(neg, d, e) ==
  IF e >= 0 /\ (Len(d) + e < 10
                \/ (Len(d) + e = 10
                    /\ CompareNat(d \o Zeros(e), DigitsOfNat(2147483647)) <= 0))
  THEN [t |-> "num", n |-> (IF neg THEN -1 ELSE 1) * NatOfDigits(d \o Zeros(e))]
  ELSE [t |-> "num", neg |-> neg, d |-> d, q |-> e]

\* The same for digits lead without leading zeros.
MakeStripped(neg, lead, q) ==
  IF lead = <<>> THEN SignedZero(neg)
  ELSE MakeTrimmed(neg, SubSeq(lead, 1, Len(lead) - TrailingZeros(lead)),
                   q + TrailingZeros(lead))

\* The number (-1)^neg * ds * 10^q, which is a double, in its representation.
MakeNum(neg, ds, q) == MakeStripped(neg, StripLeading(ds), q)

\* The exact decimal expansion [neg, d, q] of a finite number; d is <<>>
\* for the two zeros.
Expansion(v) ==
  IF IsSmall(v) THEN [neg |-> v.n < 0, d |-> DigitsOfNat(Abs(v.n)), q |-> 0]
  ELSE IF IsSpecial(v) THEN [neg |-> TRUE, d |-> <<>>, q |-> 0]
  ELSE [neg |-> v.neg, d |-> v.d, q |-> v.q]

IsFinite(v) == ~IsSpecial(v) \/ v = MinusZero
IsZero(v) == v = MinusZero \/ v = [t |-> "num", n |-> 0]
IsNegative(v) ==
  IF IsSmall(v) THEN v.n < 0
  ELSE IF IsSpecial(v) THEN v = MinusInfinity
  ELSE v.neg

\* The number of bits of a divisor, rounded up: 2^(b - 1) < c <= 2^b.
BitsOf(c) == CHOOSE b \in 0..27 : c <= 2 ^ b /\ (b = 0 \/ c > 2 ^ (b - 1))

\* The last step of RoundDecimal: the number rounded * 2^E.
RoundResult(neg, rounded, E) ==
  IF rounded = <<>> THEN SignedZero(neg)
  ELSE IF E >= 972 \/ (E = 971 /\ CompareNat(rounded, PowersOfTwo[53]) >= 0)
  THEN SignedInfinity(neg)
  ELSE MakeNum(neg,
               MulPow(rounded, IF E >= 0 THEN 2 ELSE 5,
                      Chunk(IF E >= 0 THEN 2 ELSE 5), Abs(E)),
               Min(E, 0))

\* The 53 bits M of a quotient of 54 bits, rounded by its last bit, ties to
\* even.
RoundTies(neg, M, last, sticky, E) ==
  RoundResult(neg,
              IF last = 1 /\ (sticky \/ (M # <<>> /\ M[Len(M)] % 2 = 1))
              THEN AddNat(M, <<1>>) ELSE M,
              E)

\* The quotient Q of 54 bits, halved.
RoundHalf(neg, half, sticky, E) ==
  RoundTies(neg, StripLeading(half.q), half.r, sticky, E)

\* The quotient Q0 of 54 to 62 bits, cut to 54 bits by t.
RoundCut(neg, Q, E) == RoundHalf(neg, DivW(Q.d, 2, 0), Q.sticky, E)

\* The number of bits of the quotient Q0 beyond 54.
RoundBits(neg, Q0, e0, t) == RoundCut(neg, DivPow2(Q0, t), e0 + t + 1)

\* The quotient Q0 of the scaled magnitude by the divisor.
RoundQuotient(neg, Q0, e0) ==
  RoundBits(neg, Q0, e0,
            Cardinality({k \in 54..62 : CompareNat(Q0.d, PowersOfTwo[k]) >= 0}))

\* The magnitude up * 10^q, an integer and whether anything was discarded.
ScaleTen(up, q) ==
  IF q >= 0 THEN Inexact(up \o Zeros(q), FALSE) ELSE DropDigits(up, 0 - q)

\* down / c
ByDivisor(down, c) == IF c > 1 THEN DivSmall(down, c) ELSE down

\* RoundDecimal for digits lead without leading zeros and the exponent e0.
RoundScaled(neg, lead, q, c, e0) ==
  RoundQuotient(neg,
                ByDivisor(DivPow2(ScaleTen(MulPow(lead, 2, Chunk(2), 0 - e0), q), e0), c),
                e0)

\* RoundDecimal for digits lead without leading zeros.
RoundStripped(neg, lead, q, c) ==
  IF lead = <<>> \/ Len(lead) + q <= -324 THEN SignedZero(neg)
  ELSE IF Len(lead) + q >= 316 THEN SignedInfinity(neg)
  ELSE RoundScaled(neg, lead, q, c,
                   Max(((Len(lead) + q - 1) * 3321928 - 1000) \div 1000000
                         - BitsOf(c) - 53,
                       -1075))

\* The double nearest to (-1)^neg * ds * 10^q / c, ties to even (the
\* rounding of every arithmetic operation and of the reading of a literal);
\* ds is a natural number and c a positive integer of at most 2^27.
\* With V the magnitude, e0 is chosen so that V / 2^e0 has 54 to 62 bits,
\* or is the subnormal exponent; the quotient is cut to 54 bits and its
\* last bit and the discarded rest decide the rounding.
RoundDecimal(neg, ds, q, c) == RoundStripped(neg, StripLeading(ds), q, c)

\* The digits of the expansion x at the exponent q.
Aligned(x, q) == IF x.d = <<>> THEN <<>> ELSE x.d \o Zeros(x.q - q)

\* -1, 0 or 1 as the number of sign xNeg and digits xs is below, equal to
\* or above the number of sign yNeg and digits ys at the same exponent.
CompareAligned(xNeg, xs, yNeg, ys) ==
  IF (xNeg /\ xs # <<>>) # (yNeg /\ ys # <<>>)
  THEN (IF xNeg /\ xs # <<>> THEN -1 ELSE 1)
  ELSE IF xNeg /\ xs # <<>> THEN CompareNat(ys, xs) ELSE CompareNat(xs, ys)

CompareExpansions(x, y) ==
  CompareAligned(x.neg, Aligned(x, Min(x.q, y.q)), y.neg, Aligned(y, Min(x.q, y.q)))

\* -1, 0 or 1 as the finite number a is below, equal to or above b.
CompareFinite(a, b) ==
  IF IsSmall(a) /\ IsSmall(b)
  THEN (IF a.n < b.n THEN -1 ELSE IF a.n > b.n THEN 1 ELSE 0)
  ELSE CompareExpansions(Expansion(a), Expansion(b))

\* a < b on numbers: false when either is NaN.
NumLess(a, b) ==
  IF IsNaN(a) \/ IsNaN(b) THEN FALSE
  ELSE IF a = PlusInfinity \/ b = MinusInfinity THEN FALSE
  ELSE IF a = MinusInfinity \/ b = PlusInfinity THEN TRUE
  ELSE CompareFinite(a, b) < 0

\* a <= b on numbers: false when either is NaN.
NumLessEq(a, b) ==
  IF IsNaN(a) \/ IsNaN(b) THEN FALSE ELSE ~NumLess(b, a)

\* -a
NumNegate(a) ==
  IF IsSmall(a) THEN (IF a.n = 0 THEN MinusZero ELSE JNum(0 - a.n))
  ELSE IF IsSpecial(a)
  THEN CASE a = NaN -> NaN
         [] a = PlusInfinity -> MinusInfinity
         [] a = MinusInfinity -> PlusInfinity
         [] a = MinusZero -> JNum(0)
  ELSE [a EXCEPT !.neg = ~a.neg]

\* The sign and the digits of the sum of two numbers at one exponent.
SumOf(xNeg, xs, yNeg, ys) ==
  IF xNeg = yNeg \/ xs = <<>> \/ ys = <<>>
  THEN [neg |-> IF xs = <<>> THEN yNeg ELSE xNeg, d |-> AddNat(xs, ys)]
  ELSE IF CompareNat(xs, ys) >= 0 THEN [neg |-> xNeg, d |-> SubNat(xs, ys)]
  ELSE [neg |-> yNeg, d |-> SubNat(ys, xs)]

\* The sum at the exponent q, rounded; a difference that is exactly zero
\* is 0.
RoundedSum(sum, q) ==
  IF sum.d = <<>> THEN JNum(0) ELSE RoundDecimal(sum.neg, sum.d, q, 1)

AddAligned(a, b, xNeg, xs, yNeg, ys, q) ==
  IF xs = <<>> /\ ys = <<>>
  THEN (IF a = MinusZero /\ b = MinusZero THEN MinusZero ELSE JNum(0))
  ELSE RoundedSum(SumOf(xNeg, xs, yNeg, ys), q)

AddExpansions(a, b, x, y) ==
  AddAligned(a, b, x.neg, Aligned(x, Min(x.q, y.q)),
             y.neg, Aligned(y, Min(x.q, y.q)), Min(x.q, y.q))

\* a + b on finite numbers: the exact sum, rounded.  A sum that is exactly
\* zero is -0 only when both terms are -0.
AddFinite(a, b) ==
  IF IsSmall(a) /\ IsSmall(b) /\ Abs(a.n) <= 10 ^ 9 /\ Abs(b.n) <= 10 ^ 9
  THEN JNum(a.n + b.n)
  ELSE AddExpansions(a, b, Expansion(a), Expansion(b))

\* a + b
NumAdd(a, b) ==
  IF IsNaN(a) \/ IsNaN(b) THEN NaN
  ELSE IF a \in {PlusInfinity, MinusInfinity}
  THEN (IF b \in {PlusInfinity, MinusInfinity} /\ b # a THEN NaN ELSE a)
  ELSE IF b \in {PlusInfinity, MinusInfinity} THEN b
  ELSE AddFinite(a, b)

\* a - b
NumSubtract(a, b) == NumAdd(a, NumNegate(b))

\* x.d * 10^x.q / c for the expansion x.
DivideExpansion(x, c) == RoundDecimal(x.neg, x.d, x.q, c)

\* a / c for a positive integer c of at most 2^27.
NumDivide(a, c) ==
  IF IsSpecial(a) THEN a
  ELSE IF IsSmall(a) /\ a.n % c = 0 /\ a.n # 0 THEN JNum(a.n \div c)
  ELSE DivideExpansion(Expansion(a), c)

\* The integer at or below a number of sign neg whose magnitude has the
\* integer part whole and a fraction.
FloorOf(neg, whole) == MakeNum(neg, IF neg THEN AddNat(whole, <<1>>) ELSE whole, 0)

\* Math.floor(a)
MathFloor(a) ==
  IF IsSpecial(a) \/ IsSmall(a) THEN a
  ELSE IF a.q >= 0 THEN a
  ELSE FloorOf(a.neg, DropDigits(a.d, 0 - a.q).d)

\* The characters of a sequence of digits.
DigitChars(ds) == [i \in 1..Len(ds) |-> 48 + ds[i]]

\* Number::toString of the number 0.s * 10^n for the digits s, the first
\* and the last of them not 0: plain digits for an integer below 10^21, a
\* decimal point inside the digits, leading zeros down to 10^-7, and the
\* exponent form otherwise.
FormatDigits(s, n) ==
  LET k == Len(s) IN
    IF k <= n /\ n <= 21 THEN DigitChars(s \o Zeros(n - k))
    ELSE IF 0 < n /\ n <= 21
    THEN DigitChars(SubSeq(s, 1, n)) \o <<46>> \o DigitChars(SubSeq(s, n + 1, k))
    ELSE IF -6 < n /\ n <= 0
    THEN <<48, 46>> \o DigitChars(Zeros(0 - n) \o s)
    ELSE LET mantissa == IF k = 1 THEN DigitChars(s)
                         ELSE DigitChars(SubSeq(s, 1, 1)) \o <<46>>
                              \o DigitChars(SubSeq(s, 2, k))
         IN mantissa \o <<101, IF n - 1 < 0 THEN 45 ELSE 43>>
            \o DigitChars(DigitsOfNat(Abs(n - 1)))

\* The digits c at the exponent qk as Number::toString takes them: without
\* the zeros at their end, and with the exponent n of 0.s * 10^n.
Candidate(c, qk) ==
  [s |-> SubSeq(c, 1, Len(c) - TrailingZeros(c)), n |-> Len(c) + qk]

\* The decimal c * 10^qk reads back as v.
ReadsAs(v, c, qk) == RoundDecimal(v.neg, c, qk, 1) = v

RECURSIVE ShortestDigits(_, _)
\* The choice among the candidates that read back as v: the nearer to v of
\* two, the even one at a tie; one more digit when there is none.
ShortestPick(v, k, qk, lo, hi, tail, readers) ==
  IF readers = {} THEN ShortestDigits(v, k + 1)
  ELSE IF readers = {lo, hi}
  THEN Candidate(IF \/ tail[1] > 5
                    \/ (tail[1] = 5 /\ Len(tail) > 1)
                    \/ (tail = <<5>> /\ lo[k] % 2 = 1)
                 THEN hi ELSE lo,
                 qk)
  ELSE Candidate(CHOOSE c \in readers : TRUE, qk)

\* The candidates with k digits: v cut to k digits, lo, and the next
\* k-digit decimal above that.
ShortestAmong(v, k, qk, lo, hi, tail) ==
  ShortestPick(v, k, qk, lo, hi, tail, {c \in {lo, hi} : ReadsAs(v, c, qk)})

ShortestCut(v, k, lo, tail) ==
  ShortestAmong(v, k, v.q + Len(v.d) - k, lo, AddNat(lo, <<1>>), tail)

\* The digits s and the exponent n of Number::toString for a number v in the
\* decimal representation: the fewest digits, k or more, of a decimal that
\* reads back as v, the nearest such decimal to v, the even one of two.
ShortestDigits(v, k) ==
  IF k >= Len(v.d) THEN [s |-> v.d, n |-> Len(v.d) + v.q]
  ELSE ShortestCut(v, k, SubSeq(v.d, 1, k), SubSeq(v.d, k + 1, Len(v.d)))

\* The text of the digits r.s with the exponent r.n.
Formatted(r) == FormatDigits(r.s, r.n)

\* Number::toString(v), radix 10.
NumberToString(v) ==
  IF IsSmall(v)
  THEN (IF v.n < 0 THEN <<45>> ELSE <<>>)
       \o (IF v.n = 0 THEN <<48>> ELSE DigitChars(DigitsOfNat(Abs(v.n))))
  ELSE IF IsSpecial(v)
  THEN CASE v = NaN -> <<78, 97, 78>>
         [] v = PlusInfinity -> <<73, 110, 102, 105, 110, 105, 116, 121>>
         [] v = MinusInfinity -> <<45, 73, 110, 102, 105, 110, 105, 116, 121>>
         [] v = MinusZero -> <<48>>
  ELSE (IF v.neg THEN <<45>> ELSE <<>>) \o Formatted(ShortestDigits(v, 1))

\* The own property names of an object value.
Keys(o) == {o.m[i][1] : i \in 1..Len(o.m)}

\* value.key as JavaScript evaluates it on a parsed JSON value: a property
\* of an object, undefined on the other values (none of the names used here
\* is a built-in property of strings, numbers, booleans or arrays).  The
\* caller handles null, on which property access throws a TypeError.
Get(o, key) ==
  IF o.t = "obj" /\ key \in Keys(o)
  THEN o.m[CHOOSE i \in 1..Len(o.m) : o.m[i][1] = key][2]
  ELSE Undefined

\* An array index: the canonical decimal text of an integer from 0 to
\* 2^32 - 2.
IsArrayIndex(key) ==
  /\ Len(key) >= 1 /\ Len(key) <= 10
  /\ \A i \in 1..Len(key) : key[i] >= 48 /\ key[i] <= 57
  /\ (key[1] # 48 \/ Len(key) = 1)
  /\ (Len(key) = 10 =>
        CompareNat([i \in 1..10 |-> key[i] - 48], <<4, 2, 9, 4, 9, 6, 7, 2, 9, 4>>) <= 0)

\* The array index a is below the array index b.
IndexBelow(a, b) ==
  CompareNat([i \in 1..Len(a) |-> a[i] - 48], [i \in 1..Len(b) |-> b[i] - 48]) < 0

\* obj[key] = val: replaces the value in place, or adds the property.  The
\* own properties of an object are kept in the order in which JavaScript
\* enumerates them: the array indices in ascending numeric order, then the
\* other names in the order of their creation.
Put(o, key, val) ==
  IF key \in Keys(o)
  THEN JObj([i \in 1..Len(o.m) |->
               IF o.m[i][1] = key THEN <<key, val>> ELSE o.m[i]])
  ELSE IF ~IsArrayIndex(key) THEN JObj(Append(o.m, <<key, val>>))
  ELSE LET before == {i \in 1..Len(o.m) :
                        IsArrayIndex(o.m[i][1]) /\ IndexBelow(o.m[i][1], key)}
           k == Cardinality(before)
       IN JObj(SubSeq(o.m, 1, k) \o << <<key, val>> >> \o SubSeq(o.m, k + 1, Len(o.m)))

RECURSIVE ObjectOf(_)
\* The object of a literal or of a sequence of assignments: the properties
\* props defined in turn.
ObjectOf(props) ==
  IF props = <<>> THEN JObj(<<>>)
  ELSE Put(ObjectOf(SubSeq(props, 1, Len(props) - 1)),
           props[Len(props)][1], props[Len(props)][2])

\* ToBoolean on a JSON value or undefined.
Truthy(v) ==
  CASE v.t = "undefined" -> FALSE
    [] v.t = "null" -> FALSE
    [] v.t = "bool" -> v.b
    [] v.t = "num" -> ~IsZero(v) /\ ~IsNaN(v)
    [] v.t = "str" -> v.s # <<>>
    [] OTHER -> TRUE

\* The names of the properties of an object whose value is not undefined.
DefinedKeys(o) == {k \in Keys(o) : Get(o, k).t # "undefined"}

RECURSIVE DeepEqual(_, _)
\* expect(x).toEqual(y): recursive equality that ignores the order of
\* properties and the properties whose value is undefined; two numbers
\* are equal when they are the same value (Object.is: NaN equals NaN and 0
\* differs from -0).
DeepEqual(x, y) ==
  CASE x.t # y.t -> FALSE
    [] x.t = "obj" ->
         /\ DefinedKeys(x) = DefinedKeys(y)
         /\ \A k \in DefinedKeys(x) : DeepEqual(Get(x, k), Get(y, k))
    [] x.t = "arr" ->
         /\ Len(x.a) = Len(y.a)
         /\ \A i \in 1..Len(x.a) : DeepEqual(x.a[i], y.a[i])
    [] OTHER -> x = y

(***************************************************************************)
(* Platform functions: TextEncoder, btoa, atob.                            *)
(***************************************************************************)
\* A failed call: the exception's name and, where the caller reports it,
\* its message (arg is the text that follows the fixed part of the message).
Thrown(name, msg, arg) == [ok |-> FALSE, name |-> name, msg |-> msg, arg |-> arg]
Returned(v) == [ok |-> TRUE, v |-> v]

IsHighSurrogate(c) == c >= 55296 /\ c <= 56319
IsLowSurrogate(c) == c >= 56320 /\ c <= 57343

\* The UTF-8 bytes of a code point.
Utf8OfCodePoint(cp) ==
  IF cp < 128 THEN <<cp>>
  ELSE IF cp < 2048 THEN <<192 + (cp \div 64), 128 + (cp % 64)>>
  ELSE IF cp < 65536
       THEN <<224 + (cp \div 4096), 128 + ((cp \div 64) % 64), 128 + (cp % 64)>>
  ELSE <<240 + (cp \div 262144), 128 + ((cp \div 4096) % 64),
         128 + ((cp \div 64) % 64), 128 + (cp % 64)>>

\* new TextEncoder().encode(str): the UTF-8 bytes of a string; a surrogate
\* pair is one code point and a lone surrogate becomes U+FFFD.
TextEncoderEncode(str) ==
  Concat([i \in 1..Len(str) |->
    LET c == str[i] IN
      IF IsHighSurrogate(c) /\ i < Len(str) /\ IsLowSurrogate(str[i + 1])
      THEN Utf8OfCodePoint(65536 + (c - 55296) * 1024 + (str[i + 1] - 56320))
      ELSE IF IsLowSurrogate(c) /\ i > 1 /\ IsHighSurrogate(str[i - 1])
      THEN <<>>
      ELSE IF IsHighSurrogate(c) \/ IsLowSurrogate(c)
      THEN Utf8OfCodePoint(65533)
      ELSE Utf8OfCodePoint(c)])

\* The base64 character of a 6-bit value: A-Z a-z 0-9 + /
B64Char(v) ==
  IF v < 26 THEN 65 + v
  ELSE IF v < 52 THEN 97 + (v - 26)
  ELSE IF v < 62 THEN 48 + (v - 52)
  ELSE IF v = 62 THEN 43 ELSE 47

IsB64Char(c) ==
  \/ c >= 65 /\ c <= 90
  \/ c >= 97 /\ c <= 122
  \/ c >= 48 /\ c <= 57
  \/ c = 43
  \/ c = 47

\* The 6-bit value of a base64 character.
B64Value(c) ==
  IF c >= 65 /\ c <= 90 THEN c - 65
  ELSE IF c >= 97 /\ c <= 122 THEN c - 97 + 26
  ELSE IF c >= 48 /\ c <= 57 THEN c - 48 + 52
  ELSE IF c = 43 THEN 62 ELSE 63

\* The base64 characters of a group of 1, 2 or 3 bytes, = padded.
Base64Group(b) ==
  IF Len(b) = 1
  THEN <<B64Char(b[1] \div 4), B64Char((b[1] % 4) * 16), 61, 61>>
  ELSE IF Len(b) = 2
  THEN <<B64Char(b[1] \div 4), B64Char((b[1] % 4) * 16 + (b[2] \div 16)),
         B64Char((b[2] % 16) * 4), 61>>
  ELSE <<B64Char(b[1] \div 4), B64Char((b[1] % 4) * 16 + (b[2] \div 16)),
         B64Char((b[2] % 16) * 4 + (b[3] \div 64)), B64Char(b[3] % 64)>>

\* Standard base64 with = padding of a byte sequence.
Base64OfBytes(b) ==
  Concat([g \in 1..((Len(b) + 2) \div 3) |->
            Base64Group(SubSeq(b, 3 * g - 2, Min(3 * g, Len(b))))])

\* btoa(binary): fails on a code unit above 255.
btoa(bin) ==
  IF \E i \in 1..Len(bin) : bin[i] > 255
  THEN Thrown("InvalidCharacterError", "InvalidCharacterError", <<>>)
  ELSE Returned(Base64OfBytes(bin))

IsAsciiWhitespace(c) == c \in {9, 10, 12, 13, 32}

\* The bytes written by a group of 2, 3 or 4 base64 characters; the 4 or 2
\* bits left over by a group of 2 or 3 characters are discarded, and a
\* single left-over character writes nothing.
BytesOfGroup(d) ==
  IF Len(d) < 2 THEN <<>>
  ELSE LET v1 == B64Value(d[1])
           v2 == B64Value(d[2])
       IN IF Len(d) = 2 THEN <<v1 * 4 + (v2 \div 16)>>
          ELSE LET v3 == B64Value(d[3]) IN
               IF Len(d) = 3
               THEN <<v1 * 4 + (v2 \div 16), (v2 % 16) * 16 + (v3 \div 4)>>
               ELSE <<v1 * 4 + (v2 \div 16), (v2 % 16) * 16 + (v3 \div 4),
                      (v3 % 4) * 64 + B64Value(d[4])>>

\* The bytes written by base64 characters.
BytesOfBase64(d) ==
  Concat([g \in 1..((Len(d) + 3) \div 4) |->
            BytesOfGroup(SubSeq(d, 4 * g - 3, Min(4 * g, Len(d))))])

\* atob(data), the forgiving-base64 decode: ASCII whitespace is removed, one
\* or two trailing = are removed from data whose length is a multiple of 4,
\* and data of length 1 mod 4 or holding a character outside A-Z a-z 0-9 + /
\* (so also - and _) fails with InvalidCharacterError.
atob(data) ==
  LET NotWs(c) == ~IsAsciiWhitespace(c)
      d1 == SelectSeq(data, NotWs)
      n1 == Len(d1)
      d2 == IF n1 % 4 = 0 /\ n1 >= 1 /\ d1[n1] = 61
            THEN IF n1 >= 2 /\ d1[n1 - 1] = 61
                 THEN SubSeq(d1, 1, n1 - 2)
                 ELSE SubSeq(d1, 1, n1 - 1)
            ELSE d1
  IN IF Len(d2) % 4 = 1 \/ \E i \in 1..Len(d2) : ~IsB64Char(d2[i])
     THEN Thrown("InvalidCharacterError", "InvalidCharacterError", <<>>)
     ELSE Returned(BytesOfBase64(d2))

\* .replace(/\+/g, '-').replace(/\//g, '_').replace(/=/g, '')
ToBase64Url(b64) ==
  LET NotPad(c) == c # 61
      kept == SelectSeq(b64, NotPad)
  IN [i \in 1..Len(kept) |->
        IF kept[i] = 43 THEN 45 ELSE IF kept[i] = 47 THEN 95 ELSE kept[i]]

\* Faulty variant of base64UrlEncode: the standard base64 text, without
\* the three replacements.
base64UrlEncodeStandard(str) == btoa(TextEncoderEncode(str)).v

\* base64UrlEncode(str): the unpadded base64url text of the UTF-8 bytes.
base64UrlEncode(str) == ToBase64Url(btoa(TextEncoderEncode(str)).v)

(***************************************************************************)
(* Platform functions: JSON.stringify and JSON.parse.                      *)
(***************************************************************************)
\* A lower-case hexadecimal digit.
HexDigit(v) == IF v < 10 THEN 48 + v ELSE 97 + (v - 10)

\* \uXXXX
UnicodeEscape(c) ==
  <<92, 117, HexDigit(c \div 4096), HexDigit((c \div 256) % 16),
    HexDigit((c \div 16) % 16), HexDigit(c % 16)>>

\* The JSON text of one code unit inside a string literal; next is the code
\* unit that follows it (0 at the end) and prev the one before it.
QuoteChar(c, prev, next) ==
  CASE c = 34 -> <<92, 34>>
    [] c = 92 -> <<92, 92>>
    [] c = 8 -> <<92, 98>>
    [] c = 9 -> <<92, 116>>
    [] c = 10 -> <<92, 110>>
    [] c = 12 -> <<92, 102>>
    [] c = 13 -> <<92, 114>>
    [] c < 32 -> UnicodeEscape(c)
    [] IsHighSurrogate(c) /\ ~IsLowSurrogate(next) -> UnicodeEscape(c)
    [] IsLowSurrogate(c) /\ ~IsHighSurrogate(prev) -> UnicodeEscape(c)
    [] OTHER -> <<c>>

\* QuoteJSONString: the string literal of a string.
QuoteJSONString(str) ==
  <<34>>
  \o Concat([i \in 1..Len(str) |->
               QuoteChar(str[i],
                         IF i > 1 THEN str[i - 1] ELSE 0,
                         IF i < Len(str) THEN str[i + 1] ELSE 0)])
  \o <<34>>

RECURSIVE JoinWithComma(_)
JoinWithComma(ss) ==
  IF ss = <<>> THEN <<>>
  ELSE IF Len(ss) = 1 THEN ss[1]
  ELSE ss[1] \o <<44>> \o JoinWithComma(Tail(ss))

RECURSIVE JSON_stringify(_)
\* JSON.stringify(value) without indentation: properties in order, a
\* property whose value is undefined is left out, an undefined array
\* element is written null, and so is a number that is not finite.
JSON_stringify(v) ==
  CASE v.t = "null" -> S("null")
    [] v.t = "bool" -> IF v.b THEN S("true") ELSE S("false")
    [] v.t = "num" -> IF v \in {NaN, PlusInfinity, MinusInfinity} THEN S("null")
                      ELSE NumberToString(v)
    [] v.t = "str" -> QuoteJSONString(v.s)
    [] v.t = "arr" ->
         <<91>>
         \o JoinWithComma([i \in 1..Len(v.a) |->
                             IF v.a[i].t = "undefined" THEN S("null")
                             ELSE JSON_stringify(v.a[i])])
         \o <<93>>
    [] v.t = "obj" ->
         LET Defined(p) == p[2].t # "undefined"
             props == SelectSeq(v.m, Defined)
         IN <<123>>
            \o JoinWithComma([i \in 1..Len(props) |->
                                QuoteJSONString(props[i][1]) \o <<58>>
                                  \o JSON_stringify(props[i][2])])
            \o <<125>>

\* The parser's results: a value and the position after it, or a failure.
ParseOk(v, i) == [ok |-> TRUE, v |-> v, i |-> i]
ParseFail == [ok |-> FALSE]

IsJsonWhitespace(c) == c \in {9, 10, 13, 32}
IsDigit(c) == c >= 48 /\ c <= 57

RECURSIVE SkipWs(_, _)
\* The first position at or after i that holds no JSON whitespace.
SkipWs(s, i) ==
  IF i <= Len(s) /\ IsJsonWhitespace(s[i]) THEN SkipWs(s, i + 1) ELSE i

IsHexDigit(c) ==
  IsDigit(c) \/ (c >= 97 /\ c <= 102) \/ (c >= 65 /\ c <= 70)

HexValue(c) ==
  IF IsDigit(c) THEN c - 48
  ELSE IF c >= 97 THEN c - 97 + 10 ELSE c - 65 + 10

RECURSIVE ParseStringBody(_, _, _)
\* The characters of a string literal from position j (after the opening
\* quote) to its closing quote, appended to acc.
ParseStringBody(s, j, acc) ==
  IF j > Len(s) THEN ParseFail
  ELSE LET c == s[j] IN
    IF c = 34 THEN ParseOk(acc, j + 1)
    ELSE IF c < 32 THEN ParseFail
    ELSE IF c # 92 THEN ParseStringBody(s, j + 1, Append(acc, c))
    ELSE IF j + 1 > Len(s) THEN ParseFail
    ELSE LET e == s[j + 1] IN
      IF e \in {34, 92, 47} THEN ParseStringBody(s, j + 2, Append(acc, e))
      ELSE IF e = 98 THEN ParseStringBody(s, j + 2, Append(acc, 8))
      ELSE IF e = 102 THEN ParseStringBody(s, j + 2, Append(acc, 12))
      ELSE IF e = 110 THEN ParseStringBody(s, j + 2, Append(acc, 10))
      ELSE IF e = 114 THEN ParseStringBody(s, j + 2, Append(acc, 13))
      ELSE IF e = 116 THEN ParseStringBody(s, j + 2, Append(acc, 9))
      ELSE IF e = 117 /\ j + 5 <= Len(s)
              /\ \A k \in 2..5 : IsHexDigit(s[j + k])
      THEN ParseStringBody(s, j + 6,
             Append(acc, HexValue(s[j + 2]) * 4096 + HexValue(s[j + 3]) * 256
                         + HexValue(s[j + 4]) * 16 + HexValue(s[j + 5])))
      ELSE ParseFail

\* The first position at or after i that holds no digit.
DigitsEnd(s, i) ==
  CHOOSE j \in i..(Len(s) + 1) :
    /\ j = Len(s) + 1 \/ ~IsDigit(s[j])
    /\ \A k \in i..(j - 1) : IsDigit(s[k])

\* The digits written from position i to position j - 1.
DigitsBetween(s, i, j) == [k \in 1..(j - i) |-> s[i + k - 1] - 48]

\* The value of the digits of an exponent; one of more than six digits is
\* read as 10^6, which is beyond the exponent of every double.
ExponentOf(ds) ==
  IF Len(StripLeading(ds)) > 6 THEN 10 ^ 6 ELSE NatOfDigits(StripLeading(ds))

\* The parts of a decimal literal in the text s whose integer part is from
\* j to k - 1: the fraction, if any, from k + 1 to l - 1, and the digits of
\* the exponent, if any, from l2 to m - 1.
ScanDigits(s, j, k, l, hasExp, l2) ==
  [j |-> j, k |-> k, l |-> l, l2 |-> l2,
   m |-> IF hasExp THEN DigitsEnd(s, l2) ELSE l,
   hasPoint |-> k <= Len(s) /\ s[k] = 46,
   hasExp |-> hasExp,
   expNeg |-> l2 = l + 2 /\ s[l + 1] = 45]

ScanSign(s, j, k, l, hasExp) ==
  ScanDigits(s, j, k, l, hasExp,
             IF hasExp /\ l + 1 <= Len(s) /\ s[l + 1] \in {43, 45}
             THEN l + 2 ELSE l + 1)

ScanExponent(s, j, k, l) == ScanSign(s, j, k, l, l <= Len(s) /\ s[l] \in {101, 69})

ScanFraction(s, j, k) ==
  ScanExponent(s, j, k, IF k <= Len(s) /\ s[k] = 46 THEN DigitsEnd(s, k + 1) ELSE k)

\* The number of the digits whole before and frac behind the point, times
\* 10^exp.
DecimalOf(neg, whole, frac, exp) ==
  RoundDecimal(neg, whole \o frac, exp - Len(frac), 1)

\* The number written by a decimal literal in the text s, of the parts lit.
DecimalValue(s, neg, lit) ==
  DecimalOf(neg,
            DigitsBetween(s, lit.j, lit.k),
            IF lit.l > lit.k THEN DigitsBetween(s, lit.k + 1, lit.l) ELSE <<>>,
            IF lit.m > lit.l
            THEN (IF lit.expNeg THEN -1 ELSE 1) * ExponentOf(DigitsBetween(s, lit.l2, lit.m))
            ELSE 0)

\* The JSON number of the parts lit: it has an integer part, digits behind
\* a point and digits in an exponent.
NumberOf(s, neg, lit) ==
  IF \/ lit.k = lit.j
     \/ (lit.hasPoint /\ lit.l = lit.k + 1)
     \/ (lit.hasExp /\ lit.m = lit.l2)
  THEN ParseFail
  ELSE ParseOk(DecimalValue(s, neg, lit), lit.m)

\* The JSON number whose integer part starts at j: a 0 alone or digits.
NumberFrom(s, neg, j) ==
  NumberOf(s, neg,
           ScanFraction(s, j, IF j <= Len(s) /\ s[j] = 48 THEN j + 1 ELSE DigitsEnd(s, j)))

\* A JSON number at position i.  The grammar is -? (0 | [1-9][0-9]*) with
\* an optional fraction and exponent; the value is the double nearest to
\* the number written.
ParseNumber(s, i) ==
  NumberFrom(s, i <= Len(s) /\ s[i] = 45, IF i <= Len(s) /\ s[i] = 45 THEN i + 1 ELSE i)

\* The white space and line terminators that the conversion of a string to
\* a number strips from both ends.
IsStrWhiteSpace(c) ==
  \/ c \in {9, 10, 11, 12, 13, 32, 160, 5760, 8232, 8233, 8239, 8287, 12288, 65279}
  \/ (c >= 8192 /\ c <= 8202)

\* str.trim()
Trim(str) ==
  LET ink == {i \in 1..Len(str) : ~IsStrWhiteSpace(str[i])} IN
    IF ink = {} THEN <<>>
    ELSE SubSeq(str, CHOOSE i \in ink : \A j \in ink : i <= j,
                     CHOOSE i \in ink : \A j \in ink : i >= j)

\* The value of a digit of a literal in another radix, 99 for none.
RadixDigit(c) ==
  IF IsDigit(c) THEN c - 48
  ELSE IF c >= 97 /\ c <= 102 THEN c - 87
  ELSE IF c >= 65 /\ c <= 70 THEN c - 55
  ELSE 99

RECURSIVE RadixValue(_, _, _, _)
\* The natural number written in the radix by the text from position i,
\* continuing the number acc.
RadixValue(text, radix, i, acc) ==
  IF i > Len(text) THEN acc
  ELSE RadixValue(text, radix, i + 1, MulAdd(acc, radix, RadixDigit(text[i])))

\* The radix of a literal that starts 0x, 0o or 0b, 10 otherwise.
RadixOf(text) ==
  IF Len(text) < 2 \/ text[1] # 48 THEN 10
  ELSE CASE text[2] \in {120, 88} -> 16
         [] text[2] \in {111, 79} -> 8
         [] text[2] \in {98, 66} -> 2
         [] OTHER -> 10

InfinityText == <<73, 110, 102, 105, 110, 105, 116, 121>>

\* The number of the natural number ds, or NaN.
NumberOrNaN(ok, ds) == IF ok THEN RoundDecimal(FALSE, ds, 0, 1) ELSE NaN

\* An unsigned literal in the radix, behind its prefix.
RadixLiteral(text, radix) ==
  NumberOrNaN(Len(text) > 2 /\ \A i \in 3..Len(text) : RadixDigit(text[i]) < radix,
              RadixValue(text, radix, 3, <<>>))

\* A decimal literal of the parts lit: it has a digit in its integer part
\* or its fraction, digits in an exponent, and nothing behind it.
DecimalLiteral(text, neg, lit) ==
  IF \/ (lit.k - lit.j) + (IF lit.hasPoint THEN lit.l - lit.k - 1 ELSE 0) = 0
     \/ (lit.hasExp /\ lit.m = lit.l2)
     \/ lit.m # Len(text) + 1
  THEN NaN
  ELSE DecimalValue(text, neg, lit)

\* The literal behind an optional sign, from position j.
SignedLiteral(text, neg, j) ==
  IF SubSeq(text, j, Len(text)) = InfinityText THEN SignedInfinity(neg)
  ELSE IF RadixOf(text) # 10 THEN RadixLiteral(text, RadixOf(text))
  ELSE DecimalLiteral(text, neg, ScanFraction(text, j, DigitsEnd(text, j)))

TrimmedToNumber(text) ==
  IF text = <<>> THEN JNum(0)
  ELSE SignedLiteral(text, text[1] = 45, IF text[1] \in {43, 45} THEN 2 ELSE 1)

\* ToNumber on a string (StringToNumber): the text without surrounding
\* white space is empty (0), Infinity with an optional sign, an unsigned
\* literal in radix 16, 8 or 2, or a decimal literal with an optional sign,
\* in which either the integer part or the fraction may be missing; every
\* other text is NaN.
StringToNumber(str) == TrimmedToNumber(Trim(str))

\* Whether the text lit starts at position i.
StartsWith(s, i, lit) ==
  i + Len(lit) - 1 <= Len(s) /\ SubSeq(s, i, i + Len(lit) - 1) = lit

TrueText == S("true")
FalseText == S("false")
NullText == S("null")

RECURSIVE ParseValue(_, _)
RECURSIVE ParseMembers(_, _, _)
RECURSIVE ParseElements(_, _, _)

\* An object after a member: the closing brace or a comma and the next
\* member; d is the position after the member and its whitespace.
MemberEnd(s, obj, d) ==
  IF d > Len(s) THEN ParseFail
  ELSE IF s[d] = 125 THEN ParseOk(obj, d + 1)
  ELSE IF s[d] = 44 THEN ParseMembers(s, SkipWs(s, d + 1), obj)
  ELSE ParseFail

\* A member after its value val: a repeated key keeps its first position
\* and takes the last value.
MemberValue(s, obj, key, val) ==
  IF ~val.ok THEN ParseFail
  ELSE MemberEnd(s, Put(obj, key, val.v), SkipWs(s, val.i))

\* A member after its key: the colon at position c and the value.
MemberColon(s, obj, key, c) ==
  IF c > Len(s) \/ s[c] # 58 THEN ParseFail
  ELSE MemberValue(s, obj, key, ParseValue(s, SkipWs(s, c + 1)))

\* A member whose key literal has been read as key.
MemberKey(s, obj, key) ==
  IF ~key.ok THEN ParseFail
  ELSE MemberColon(s, obj, key.v, SkipWs(s, key.i))

\* The members of an object from position i (at a key), added to obj.
ParseMembers(s, i, obj) ==
  IF i > Len(s) \/ s[i] # 34 THEN ParseFail
  ELSE MemberKey(s, obj, ParseStringBody(s, i + 1, <<>>))

\* An array after an element: the closing bracket or a comma and the next
\* element; d is the position after the element and its whitespace.
ElementEnd(s, acc, d) ==
  IF d > Len(s) THEN ParseFail
  ELSE IF s[d] = 93 THEN ParseOk(JArr(acc), d + 1)
  ELSE IF s[d] = 44 THEN ParseElements(s, SkipWs(s, d + 1), acc)
  ELSE ParseFail

\* An array after the value val of an element.
ElementValue(s, acc, val) ==
  IF ~val.ok THEN ParseFail
  ELSE ElementEnd(s, Append(acc, val.v), SkipWs(s, val.i))

\* The elements of an array from position i (at a value), appended to acc.
ParseElements(s, i, acc) == ElementValue(s, acc, ParseValue(s, i))

\* An object after its opening brace; j is the position after the brace and
\* its whitespace.
ObjectBody(s, j) ==
  IF j <= Len(s) /\ s[j] = 125 THEN ParseOk(JObj(<<>>), j + 1)
  ELSE ParseMembers(s, j, JObj(<<>>))

\* An array after its opening bracket.
ArrayBody(s, j) ==
  IF j <= Len(s) /\ s[j] = 93 THEN ParseOk(JArr(<<>>), j + 1)
  ELSE ParseElements(s, j, <<>>)

\* The string value of a string literal read as str.
StringValue(str) == IF str.ok THEN ParseOk(JStr(str.v), str.i) ELSE ParseFail

\* The JSON value at position i.
ParseValue(s, i) ==
  IF i > Len(s) THEN ParseFail
  ELSE IF s[i] = 123 THEN ObjectBody(s, SkipWs(s, i + 1))
  ELSE IF s[i] = 91 THEN ArrayBody(s, SkipWs(s, i + 1))
  ELSE IF s[i] = 34 THEN StringValue(ParseStringBody(s, i + 1, <<>>))
  ELSE IF s[i] = 45 \/ IsDigit(s[i]) THEN ParseNumber(s, i)
  ELSE IF StartsWith(s, i, TrueText) THEN ParseOk(JBool(TRUE), i + 4)
  ELSE IF StartsWith(s, i, FalseText) THEN ParseOk(JBool(FALSE), i + 5)
  ELSE IF StartsWith(s, i, NullText) THEN ParseOk(JNull, i + 4)
  ELSE ParseFail

\* The result of JSON.parse once the value r has been read: only
\* whitespace may follow it.
ParseEnd(text, r) ==
  IF r.ok /\ SkipWs(text, r.i) = Len(text) + 1
  THEN Returned(r.v)
  ELSE Thrown("SyntaxError", "SyntaxError", <<>>)

\* JSON.parse(text): the value of a text that is one JSON value between
\* optional whitespace; a SyntaxError otherwise.
JSON_parse(text) == ParseEnd(text, ParseValue(text, SkipWs(text, 1)))

(***************************************************************************)
(* The JWT engine.                                                         *)
(***************************************************************************)
\* str.split(sep) for a one-character separator: the pieces between the
\* occurrences of sep, one more than there are occurrences.
SplitOn(str, sep) ==
  LET at == {i \in 1..Len(str) : str[i] = sep}
      \* the position of the k-th separator; 0 and Len + 1 bound the string
      Pos(k) == IF k = 0 THEN 0
                ELSE IF k = Cardinality(at) + 1 THEN Len(str) + 1
                ELSE CHOOSE p \in at : Cardinality({q \in at : q < p}) = k - 1
  IN [k \in 1..(Cardinality(at) + 1) |-> SubSeq(str, Pos(k - 1) + 1, Pos(k) - 1)]

\* token.split('.')
Split(str) == SplitOn(str, 46)

\* The TypeError of a conversion of an object to a primitive value: the
\* object has an own property toString, which is not a function (no
\* value of the JSON model is), so that neither its toString nor the
\* valueOf it inherits, which returns the object, yields a primitive.
NotPrimitive == Thrown("TypeError", "Cannot convert object to primitive value", <<>>)

TOSTRING == S("toString")

RECURSIVE ToStringJS(_)
\* ToString(value), as a template literal converts a value: the text, or
\* the TypeError of the conversion.  An array is its elements joined by
\* commas, null and undefined elements empty; an object is what
\* Object.prototype.toString returns.
ToStringJS(v) ==
  CASE v.t = "undefined" -> Returned(S("undefined"))
    [] v.t = "null" -> Returned(S("null"))
    [] v.t = "bool" -> Returned(IF v.b THEN S("true") ELSE S("false"))
    [] v.t = "num" -> Returned(NumberToString(v))
    [] v.t = "str" -> Returned(v.s)
    [] v.t = "arr" ->
         LET parts == [i \in 1..Len(v.a) |->
                         IF v.a[i].t \in {"null", "undefined"} THEN Returned(<<>>)
                         ELSE ToStringJS(v.a[i])]
             failed == {i \in 1..Len(v.a) : ~parts[i].ok}
         IN IF failed # {}
            THEN parts[CHOOSE i \in failed : \A j \in failed : i <= j]
            ELSE Returned(JoinWithComma([i \in 1..Len(v.a) |-> parts[i].v]))
    [] v.t = "obj" ->
         IF TOSTRING \in Keys(v) THEN NotPrimitive
         ELSE Returned(S("[object Object]"))

\* The number of a text that a conversion returned, or what it threw.
TextToNumber(text) == IF text.ok THEN Returned(StringToNumber(text.v)) ELSE text

\* ToNumber(value), as the operators < > and - convert an operand that is
\* compared with or subtracted from a number: the number, or the TypeError
\* of the conversion.  An array and an object are converted through their
\* text.
ToNumber(v) ==
  CASE v.t = "undefined" -> Returned(NaN)
    [] v.t = "null" -> Returned(JNum(0))
    [] v.t = "bool" -> Returned(IF v.b THEN JNum(1) ELSE JNum(0))
    [] v.t = "num" -> Returned(v)
    [] OTHER -> TextToNumber(IF v.t = "str" THEN Returned(v.s) ELSE ToStringJS(v))

\* value.key: the property, or the TypeError of a property access on null
\* or undefined.
Read(v, key) ==
  IF v.t \in {"null", "undefined"}
  THEN Thrown("TypeError", "Cannot read properties of ",
              S(v.t) \o S(" (reading '") \o key \o S("')"))
  ELSE Returned(Get(v, key))

\* The text of an error message: a fixed part and the text that follows it.
Message(msg, arg) == [msg |-> msg, arg |-> arg]

\* error instanceof Error ? error.message : fallback.  Every exception
\* raised here (Error, TypeError, SyntaxError, InvalidCharacterError) is an
\* instance of Error.
MessageOf(thrown) == Message(thrown.msg, thrown.arg)

HS256 == S("HS256")
HS384 == S("HS384")
HS512 == S("HS512")
NoneAlg == S("none")
JWT == S("JWT")
ALG == S("alg")
TYP == S("typ")

(***************************************************************************)
(* SHA-2 and HMAC (FIPS 180-4, RFC 2104), as CryptoJS computes them.  A    *)
(* word of 32 or 64 bits is the sequence of its 16-bit limbs, the most     *)
(* significant first.                                                      *)
(***************************************************************************)
\* a XOR b and a AND b on 4-bit numbers, at index 16 * a + b + 1.
Xor4 ==
  [i \in 1..256 |->
     LET a == (i - 1) \div 16
         b == (i - 1) % 16
     IN 8 * ((a \div 8 + b \div 8) % 2) + 4 * (((a \div 4) + (b \div 4)) % 2)
        + 2 * (((a \div 2) + (b \div 2)) % 2) + ((a + b) % 2)] \o <<>>

And4 ==
  [i \in 1..256 |->
     LET a == (i - 1) \div 16
         b == (i - 1) % 16
     IN 8 * ((a \div 8) * (b \div 8)) + 4 * (((a \div 4) % 2) * ((b \div 4) % 2))
        + 2 * (((a \div 2) % 2) * ((b \div 2) % 2)) + ((a % 2) * (b % 2))] \o <<>>

\* The same on bytes, at index 256 * a + b + 1.
Xor8 ==
  [i \in 1..65536 |->
     16 * Xor4[16 * ((i - 1) \div 4096) + (((i - 1) % 256) \div 16) + 1]
     + Xor4[16 * (((i - 1) \div 256) % 16) + ((i - 1) % 16) + 1]] \o <<>>

And8 ==
  [i \in 1..65536 |->
     16 * And4[16 * ((i - 1) \div 4096) + (((i - 1) % 256) \div 16) + 1]
     + And4[16 * (((i - 1) \div 256) % 16) + ((i - 1) % 16) + 1]] \o <<>>

\* The same on 16-bit limbs.
Xor16(a, b) ==
  256 * Xor8[256 * (a \div 256) + (b \div 256) + 1]
  + Xor8[256 * (a % 256) + (b % 256) + 1]

And16(a, b) ==
  256 * And8[256 * (a \div 256) + (b \div 256) + 1]
  + And8[256 * (a % 256) + (b % 256) + 1]

\* a ^ b, a & b and ~a on words.
WordXor(a, b) == [i \in 1..Len(a) |-> Xor16(a[i], b[i])] \o <<>>
WordAnd(a, b) == [i \in 1..Len(a) |-> And16(a[i], b[i])] \o <<>>
WordNot(a) == [i \in 1..Len(a) |-> 65535 - a[i]] \o <<>>

\* The word rotated right by r bits.
RotR(a, r) ==
  LET L == Len(a)
      q == r \div 16
      p == 2 ^ (r % 16)
      Limb(j) == a[((j - 1) % L) + 1]
  IN [i \in 1..L |-> (Limb(i - q) \div p) + (Limb(i - q - 1) % p) * (65536 \div p)]
     \o <<>>

\* The word shifted right by r bits.
ShR(a, r) ==
  LET L == Len(a)
      q == r \div 16
      p == 2 ^ (r % 16)
      Limb(j) == IF j < 1 THEN 0 ELSE a[j]
  IN [i \in 1..L |-> (Limb(i - q) \div p) + (Limb(i - q - 1) % p) * (65536 \div p)]
     \o <<>>

RECURSIVE ColumnSum(_, _, _)
\* The sum of limb i of the first k words of ws.
ColumnSum(ws, i, k) == IF k = 0 THEN 0 ELSE ws[k][i] + ColumnSum(ws, i, k - 1)

RECURSIVE AddLimbs(_, _, _, _)
\* The limbs of a sum from limb i upwards, with the sum t of limb i and the
\* carry into it.
AddLimb(ws, i, t, acc) == AddLimbs(ws, i - 1, t \div 65536, <<t % 65536>> \o acc)

\* The limbs of a sum from limb i upwards, with the carry into limb i.
AddLimbs(ws, i, carry, acc) ==
  IF i = 0 THEN acc
  ELSE AddLimb(ws, i, ColumnSum(ws, i, Len(ws)) + carry, acc)

\* The sum of the words of ws modulo 2^n.
WordSum(ws) == AddLimbs(ws, Len(ws[1]), 0, <<>>)

\* XOR of three rotations (the last one a shift when shift is TRUE).
Sigma(x, r, shift) ==
  WordXor(WordXor(RotR(x, r[1]), RotR(x, r[2])),
          IF shift THEN ShR(x, r[3]) ELSE RotR(x, r[3]))

\* Ch(x, y, z) = (x & y) ^ (~x & z) and Maj(x, y, z) = (x & y) ^ (x & z) ^ (y & z).
Ch(x, y, z) == WordXor(WordAnd(x, y), WordAnd(WordNot(x), z))
Maj(x, y, z) == WordXor(WordXor(WordAnd(x, y), WordAnd(x, z)), WordAnd(y, z))

K256 ==
  <<<<17034, 12184>>, <<28983, 17553>>, <<46528, 64463>>, <<59829, 56229>>,
    <<14678, 49755>>, <<23025, 4593>>, <<37439, 33444>>, <<43804, 24277>>,
    <<55303, 43672>>, <<4739, 23297>>, <<9265, 34238>>, <<21772, 32195>>,
    <<29374, 23924>>, <<32990, 45566>>, <<39900, 1703>>, <<49563, 61812>>,
    <<58523, 27073>>, <<61374, 18310>>, <<4033, 40390>>, <<9228, 41420>>,
    <<11753, 11375>>, <<19060, 33962>>, <<23728, 43484>>, <<30457, 35034>>,
    <<38974, 20818>>, <<43057, 50797>>, <<45059, 10184>>, <<48985, 32711>>,
    <<50912, 3059>>, <<54695, 37191>>, <<1738, 25425>>, <<5161, 10599>>,
    <<10167, 2693>>, <<11803, 8504>>, <<19756, 28156>>, <<21304, 3347>>,
    <<25866, 29524>>, <<30314, 2747>>, <<33218, 51502>>, <<37490, 11397>>,
    <<41663, 59553>>, <<43034, 26187>>, <<49739, 35696>>, <<51052, 20899>>,
    <<53650, 59417>>, <<54937, 1572>>, <<62478, 13701>>, <<4202, 41072>>,
    <<6564, 49430>>, <<7735, 27656>>, <<10056, 30540>>, <<13488, 48309>>,
    <<14620, 3251>>, <<20184, 43594>>, <<23452, 51791>>, <<26670, 28659>>,
    <<29839, 33518>>, <<30885, 25455>>, <<33992, 30740>>, <<36039, 520>>,
    <<37054, 65530>>, <<42064, 27883>>, <<48889, 41975>>, <<50801, 30962>>>>
H256 ==
  <<<<27145, 58983>>, <<47975, 44677>>, <<15470, 62322>>, <<42319, 62778>>,
    <<20750, 21119>>, <<39685, 26764>>, <<8067, 55723>>, <<23520, 52505>>>>
K512 ==
  <<<<17034, 12184, 55080, 44578>>, <<28983, 17553, 9199, 26061>>,
    <<46528, 64463, 60493, 15151>>, <<59829, 56229, 33161, 56252>>,
    <<14678, 49755, 62280, 46392>>, <<23025, 4593, 46597, 53273>>,
    <<37439, 33444, 44825, 20379>>, <<43804, 24277, 55917, 33048>>,
    <<55303, 43672, 41731, 578>>, <<4739, 23297, 17776, 28606>>,
    <<9265, 34238, 20196, 45708>>, <<21772, 32195, 54783, 46306>>,
    <<29374, 23924, 62075, 35183>>, <<32990, 45566, 15126, 38577>>,
    <<39900, 1703, 9671, 4661>>, <<49563, 61812, 53097, 9876>>,
    <<58523, 27073, 40689, 19154>>, <<61374, 18310, 14415, 9699>>,
    <<4033, 40390, 35724, 54709>>, <<9228, 41420, 30636, 40037>>,
    <<11753, 11375, 22827, 629>>, <<19060, 33962, 28326, 58499>>,
    <<23728, 43484, 48449, 64468>>, <<30457, 35034, 33553, 21429>>,
    <<38974, 20818, 61030, 57259>>, <<43057, 50797, 11700, 12816>>,
    <<45059, 10184, 39163, 8511>>, <<48985, 32711, 48879, 3812>>,
    <<50912, 3059, 15784, 36802>>, <<54695, 37191, 37642, 42789>>,
    <<1738, 25425, 57347, 33391>>, <<5161, 10599, 2574, 28272>>,
    <<10167, 2693, 18130, 12284>>, <<11803, 8504, 23590, 51494>>,
    <<19756, 28156, 23236, 10989>>, <<21304, 3347, 40341, 46047>>,
    <<25866, 29524, 35759, 25566>>, <<30314, 2747, 15479, 45736>>,
    <<33218, 51502, 18413, 44774>>, <<37490, 11397, 5250, 13627>>,
    <<41663, 59553, 19697, 868>>, <<43034, 26187, 48194, 12289>>,
    <<49739, 35696, 53496, 38801>>, <<51052, 20899, 1620, 48688>>,
    <<53650, 59417, 55023, 21016>>, <<54937, 1572, 21861, 43280>>,
    <<62478, 13701, 22385, 8234>>, <<4202, 41072, 12987, 53688>>,
    <<6564, 49430, 47314, 53448>>, <<7735, 27656, 20801, 43859>>,
    <<10056, 30540, 57230, 60313>>, <<13488, 48309, 57755, 18600>>,
    <<14620, 3251, 50633, 23139>>, <<20184, 43594, 58177, 35531>>,
    <<23452, 51791, 30563, 58227>>, <<26670, 28659, 54962, 47267>>,
    <<29839, 33518, 24047, 45820>>, <<30885, 25455, 17175, 12128>>,
    <<33992, 30740, 41456, 43890>>, <<36039, 520, 6756, 14828>>,
    <<37054, 65530, 9059, 7720>>, <<42064, 27883, 56962, 48617>>,
    <<48889, 41975, 45766, 30997>>, <<50801, 30962, 58226, 21291>>,
    <<51751, 16078, 59942, 24988>>, <<53638, 47303, 8640, 49671>>,
    <<60122, 32214, 52704, 60190>>, <<62845, 20351, 61038, 53624>>,
    <<1776, 26538, 29207, 28602>>, <<2659, 32197, 41672, 39078>>,
    <<4415, 38916, 48889, 3502>>, <<7025, 2869, 4892, 18203>>,
    <<10459, 30709, 8964, 32132>>, <<13002, 43899, 16583, 9363>>,
    <<15518, 48650, 5577, 48828>>, <<17181, 26564, 39952, 3404>>,
    <<19653, 54462, 52030, 17078>>, <<22911, 10652, 64613, 32298>>,
    <<24523, 28587, 15062, 64236>>, <<27716, 6540, 19015, 22551>>>>
H512 ==
  <<<<27145, 58983, 62396, 51464>>, <<47975, 44677, 33994, 42811>>,
    <<15470, 62322, 65172, 63531>>, <<42319, 62778, 24349, 14065>>,
    <<20750, 21119, 44518, 33489>>, <<39685, 26764, 11070, 27679>>,
    <<8067, 55723, 64321, 48491>>, <<23520, 52505, 4990, 8569>>>>
H384 ==
  <<<<52155, 40285, 49413, 40664>>, <<25242, 10538, 13948, 54535>>,
    <<37209, 346, 12400, 56599>>, <<5423, 60632, 63246, 22841>>,
    <<26419, 9831, 65472, 2865>>, <<36532, 19079, 26712, 5393>>,
    <<56076, 11789, 25849, 36775>>, <<18357, 18461, 48890, 20388>>>>
\* The parameters of a hash: limbs per word, block and digest length in
\* bytes, bytes of the length field, rotation amounts.
SHA256 ==
  [limbs |-> 2, block |-> 64, digest |-> 32, lengthField |-> 8, K |-> K256,
   H |-> H256, S0 |-> <<2, 13, 22>>, S1 |-> <<6, 11, 25>>,
   s0 |-> <<7, 18, 3>>, s1 |-> <<17, 19, 10>>]

SHA512 ==
  [limbs |-> 4, block |-> 128, digest |-> 64, lengthField |-> 16, K |-> K512,
   H |-> H512, S0 |-> <<28, 34, 39>>, S1 |-> <<14, 18, 41>>,
   s0 |-> <<1, 8, 7>>, s1 |-> <<19, 61, 6>>]

SHA384 == [SHA512 EXCEPT !.digest = 48, !.H = H384]

\* The message schedule extended by the word W[t] (t counts from 0).
ScheduleWord(h, W) ==
  Append(W, WordSum(<<Sigma(W[Len(W) - 1], h.s1, TRUE), W[Len(W) - 6],
                      Sigma(W[Len(W) - 14], h.s0, TRUE), W[Len(W) - 15]>>))

RECURSIVE Schedule(_, _, _)
\* The message schedule first, extended by k words.
ScheduleMore(h, first, k) ==
  IF first = <<>> THEN first ELSE Schedule(h, first, k)

\* The message schedule extended by k words.
Schedule(h, W, k) ==
  IF k = 0 THEN W
  ELSE IF k = 1 THEN ScheduleWord(h, W)
  ELSE ScheduleMore(h, Schedule(h, W, k \div 2), k - k \div 2)

\* The working variables after a round with the sums T1 and T2.
RoundOf(v, T1, T2) ==
  <<WordSum(<<T1, T2>>), v[1], v[2], v[3], WordSum(<<v[4], T1>>), v[5], v[6], v[7]>>

\* One round: the working variables <<a, b, c, d, e, f, g, h>> after round t.
Round(h, W, v, t) ==
  RoundOf(v,
          WordSum(<<v[8], Sigma(v[5], h.S1, FALSE), Ch(v[5], v[6], v[7]),
                    h.K[t], W[t]>>),
          WordSum(<<Sigma(v[1], h.S0, FALSE), Maj(v[1], v[2], v[3])>>))

RECURSIVE Rounds(_, _, _, _, _)
\* The working variables first, after the rounds from to to.
RoundsMore(h, W, first, from, to) ==
  IF first = <<>> THEN first ELSE Rounds(h, W, first, from, to)

\* The working variables after the rounds from to to.
Rounds(h, W, v, from, to) ==
  IF from = to THEN Round(h, W, v, from)
  ELSE RoundsMore(h, W, Rounds(h, W, v, from, (from + to) \div 2),
                  (from + to) \div 2 + 1, to)

\* The words of a block of bytes.
BlockWords(h, block) ==
  [t \in 1..16 |->
     [i \in 1..h.limbs |->
        256 * block[2 * ((t - 1) * h.limbs + i) - 1]
        + block[2 * ((t - 1) * h.limbs + i)]] \o <<>>] \o <<>>

\* The hash value H after a block that left the working variables v.
Feed(H, v) == [i \in 1..8 |-> WordSum(<<H[i], v[i]>>)] \o <<>>

\* The hash value after a block.
Compress(h, H, block) ==
  Feed(H, Rounds(h, Schedule(h, BlockWords(h, block), Len(h.K) - 16), H, 1, Len(h.K)))

RECURSIVE CompressAll(_, _, _)
\* The hash value next, after the blocks of the rest of a padded message.
CompressMore(h, next, bytes) ==
  IF next = <<>> THEN next ELSE CompressAll(h, next, bytes)

\* The hash value after the blocks of a padded message.
CompressAll(h, H, bytes) ==
  IF bytes = <<>> THEN H
  ELSE CompressMore(h, Compress(h, H, SubSeq(bytes, 1, h.block)),
                    SubSeq(bytes, h.block + 1, Len(bytes)))

\* The padding of a message of n bytes: 0x80, zeros, and the length in bits
\* as a big-endian number, up to a multiple of the block length.
Padding(h, n) ==
  LET zeros == (2 * h.block - 1 - h.lengthField - (n % h.block)) % h.block
      bits == 8 * n
  IN <<128>> \o [i \in 1..(zeros + h.lengthField - 4) |-> 0]
     \o <<bits \div 16777216, (bits \div 65536) % 256, (bits \div 256) % 256,
          bits % 256>>

\* The bytes of a hash value.
WordBytes(H) ==
  LET L == Len(H[1]) IN
    [k \in 1..(16 * L) |->
       LET limb == H[(k - 1) \div (2 * L) + 1][((k - 1) % (2 * L)) \div 2 + 1]
       IN IF k % 2 = 1 THEN limb \div 256 ELSE limb % 256] \o <<>>

\* The digest of the message that consists of the n bytes already hashed
\* into H (whole blocks) and the bytes that follow them.
ShaFrom(h, H, n, bytes) ==
  SubSeq(WordBytes(CompressAll(h, H, bytes \o Padding(h, n + Len(bytes)))),
         1, h.digest)

\* The digest of a byte string.
Sha(h, bytes) == ShaFrom(h, h.H, 0, bytes)

\* The key k0 of at most a block, padded with zeros to a block.
ZeroPadded(h, k0) == [i \in 1..h.block |-> IF i <= Len(k0) THEN k0[i] ELSE 0] \o <<>>

\* The key of an HMAC as a block: hashed first when it is longer than a
\* block, then padded with zeros.
HmacKeyBlock(h, key) == ZeroPadded(h, IF Len(key) > h.block THEN Sha(h, key) ELSE key)

\* The hash values after a first block that is the key block XOR c, for
\* the ipad (0x36) of the inner and the opad (0x5c) of the outer hash.
KeyStates(h, block) ==
  [c \in {54, 92} |->
     CompressAll(h, h.H, [i \in 1..h.block |-> Xor8[256 * block[i] + c + 1]] \o <<>>)]
  @@ <<>>

\* The hash values after the first block of the inner and of the outer hash
\* of an HMAC.
HmacKeyStates(h, key) == KeyStates(h, HmacKeyBlock(h, key))

\* HMAC (RFC 2104) under a prepared key:
\* H((K ^ opad) || H((K ^ ipad) || message)).
HmacWith(h, states, message) ==
  ShaFrom(h, states[92], h.block, ShaFrom(h, states[54], h.block, message))

\* HMAC of a message under a key.
HmacOf(h, key, message) == HmacWith(h, HmacKeyStates(h, key), message)

\* { ...header, alg: algorithm, typ: header.typ || 'JWT' }
fullHeader(header, algorithm) ==
  LET typ == Get(header, TYP) IN
    Put(Put(header, ALG, JStr(algorithm)), TYP,
        IF Truthy(typ) THEN typ ELSE JStr(JWT))

\* const header = { alg: 'HS256', typ: 'JWT' } of generateSampleJwt.
SampleHeader == JObj(<< <<ALG, JStr(HS256)>>, <<TYP, JStr(JWT)>> >>)

\* Faulty variant of SamplePayload: exp is an hour before iat.
SamplePayloadStale(currentTime) ==
  JObj(<< <<S("sub"), JStr(S("1234567890"))>>,
          <<S("name"), JStr(S("John Doe"))>>,
          <<S("email"), JStr(S("john.doe@example.com"))>>,
          <<S("admin"), JBool(TRUE)>>,
          <<S("iat"), JNum(currentTime)>>,
          <<S("exp"), JNum(currentTime - 3600)>> >>)

\* const payload = { sub, name, email, admin, iat: currentTime, exp:
\* currentTime + 3600 } of generateSampleJwt.
SamplePayload(currentTime) ==
  JObj(<< <<S("sub"), JStr(S("1234567890"))>>,
          <<S("name"), JStr(S("John Doe"))>>,
          <<S("email"), JStr(S("john.doe@example.com"))>>,
          <<S("admin"), JBool(TRUE)>>,
          <<S("iat"), JNum(currentTime)>>,
          <<S("exp"), JNum(currentTime + 3600)>> >>)

\* const fakeSig of generateSampleJwt.
fakeSig == S("SflKxwRJSMeKKF2QT4fwpMeJf36POk6yJV_adQssw5c")

\* btoa(JSON.stringify(value)) of a value whose text is ASCII.
SampleSegment(value) == btoa(JSON_stringify(value)).v

\* return `${btoa(...)}.${btoa(...)}.${fakeSig}` of generateSampleJwt.
SampleToken(parts) == parts[1] \o <<46>> \o parts[2] \o <<46>> \o fakeSig

\* generateSampleJwt() while Date.now() is ms: the segments are made with
\* btoa, in the standard base64 alphabet with padding.
generateSampleJwt(ms) ==
  SampleToken([i \in 1..2 |-> SampleSegment(<<SampleHeader, SamplePayload(ms \div 1000)>>[i])])

(***************************************************************************)
(* Inputs of the sessions: what is encoded, what is received, and under    *)
(* which secrets.                                                          *)
(***************************************************************************)
\* The longest run of filler characters before a '?' in a generated value;
\* the runs 0..MaxFill put the '?' at every offset of a 3-byte base64 group.
MaxFill == 2

\* k times the letter x.
Fill(k) == [i \in 1..k |-> 120]

KID == S("kid")

\* The number a numeric literal denotes.
NumberLiteral(text) == StringToNumber(S(text))

\* Headers handed to encodeJwt: with alg and typ, with alg only, with an
\* empty typ, and with a value ending in '?'.
PlainHeaders ==
  {JObj(<<<<ALG, JStr(HS256)>>, <<TYP, JStr(JWT)>>>>),
   JObj(<<<<ALG, JStr(HS256)>>>>),
   JObj(<<<<TYP, JStr(<<>>)>>, <<ALG, JStr(NoneAlg)>>>>)}

FilledHeaders == {JObj(<<<<KID, JStr(Fill(k) \o S("?"))>>>>) : k \in 0..MaxFill}

Headers == PlainHeaders \cup FilledHeaders

\* Payloads handed to encodeJwt: empty, plain ASCII claims, a non-ASCII
\* claim value (U+00E9), values ending in '?', and the object literal
\* { sub: '1', exp: 1672531200.5, 7: 1e21 } with a number that is not an
\* integer, one that is written with an exponent, and an integer key.
PlainPayloads ==
  {JObj(<<>>),
   JObj(<<<<S("sub"), JStr(S("1"))>>, <<S("exp"), JNum(5)>>>>),
   JObj(<<<<S("n"), JStr(<<233>>)>>>>),
   ObjectOf([i \in 1..3 |->
               <<<<S("sub"), S("exp"), S("7")>>[i],
                 <<JStr(S("1")), NumberLiteral("1672531200.5"), NumberLiteral("1e21")>>[i]>>])}

FilledPayloads == {JObj(<<<<S("a"), JStr(Fill(k) \o S("?"))>>>>) : k \in 0..MaxFill}

Payloads == PlainPayloads \cup FilledPayloads

\* Secrets, the empty one included; all are well-formed strings.
Secrets == {<<>>, S("s"), S("t")}

\* Secrets handed to verifyJwtSignature: also one that is not well-formed
\* UTF-16, a lone high surrogate.
VerifySecrets == Secrets \cup {<<55296>>}

\* Secrets handed to encodeJwt: the same, the ill-formed one included.
EncodeSecrets == Secrets \cup {<<55296>>}

\* The algorithms the signing engine executes, and those with a keyed hash.
SupportedAlgorithms == {HS256, HS384, HS512, NoneAlg}
HmacAlgorithms == {HS256, HS384, HS512}

\* The keyed algorithms under which a header and a payload are encoded:
\* every one, but only the default one for the values ending in '?', whose
\* segments are made in the same way under every algorithm.
KeyedAlgorithmsFor(h, p) ==
  IF h \in FilledHeaders \/ p \in FilledPayloads THEN {HS256} ELSE HmacAlgorithms

\* Algorithm values of the headers of received tokens.
Algorithms == SupportedAlgorithms \cup {S("RS256")}

\* btoa(text) of an ASCII text, as the tests build segments.
Btoa(text) == Base64OfBytes(text)

\* The segment of the header {"alg": a}.
AlgHeaderSegment(a) == Btoa(JSON_stringify(JObj(<<<<ALG, JStr(a)>>>>)))

\* First segments of tokens handed to decodeJwt and verifyJwtSignature:
\* headers with a supported, an unsupported, an empty and no alg; headers
\* whose alg is a number or an object; JSON values that are not objects;
\* text that is not JSON; text that is not base64.
RawHeaderSegments ==
  {Btoa(JSON_stringify(h)) :
     h \in {JObj(<<<<ALG, JStr(a)>>>>) : a \in Algorithms \cup {<<>>}}
           \cup {JObj(<<<<TYP, JStr(JWT)>>>>), JObj(<<<<ALG, JNum(5)>>>>)}}
  \cup {Btoa(S(text)) :
          text \in {"{\"alg\":0.5}", "{\"alg\":{\"toString\":1}}", "null", "5",
                    "\"s\"", "[]", "{"}}
  \cup {ToBase64Url(Btoa(S("null"))), S("!!"), S("a"), S("e-_0"), <<>>}

\* Second segments.
RawPayloadSegments ==
  {Btoa(S(text)) :
     text \in {"{}", "null", "[1]", "{", "{\"b\":1.50,\"10\":1e2,\"9\":-0.5}"}}
  \cup {S("!!")}

\* The second, since the epoch, at which a session of the claim evaluator
\* starts.  It is more than two days, so that a claim of two days before is
\* a non-negative number.
StartSecond == 200000

\* The readings of Date.now(), in milliseconds, at which a sample token is
\* generated: seconds of one to seven digits, so that the payload segment
\* has every length modulo 3.
SampleClocks == {0, 7999, 43000, 654321, 1000 * StartSecond, 2147483000}

\* The example token of jwt.io, signed with HS256 under
\* 'your-256-bit-secret'; its signature is the fakeSig of generateSampleJwt.
ExampleToken ==
  S("eyJhbGciOiJIUzI1NiIsInR5cCI6IkpXVCJ9")
  \o S(".eyJzdWIiOiIxMjM0NTY3ODkwIiwibmFtZSI6IkpvaG4gRG9lIiwiaWF0IjoxNTE2MjM5MDIyfQ.")
  \o fakeSig

\* Secrets typed into the page.
PageSecrets == {<<>>, S("s"), S("your-256-bit-secret")}

\* The part of a token that is signed: the text before its last dot.
SignedPart(token) ==
  LET dots == {i \in 1..Len(token) : token[i] = 46} IN
    SubSeq(token, 1, (CHOOSE i \in dots : \A j \in dots : j <= i) - 1)

\* The texts the sessions sign or verify with an algorithm under a secret:
\* the header and payload segments encodeJwt makes, those of the received
\* tokens whose header names the algorithm, those of the sample tokens, and
\* those of the tokens typed into the page.  A text more than the sessions
\* sign under a secret is a digest more in the table and changes no call.
SignedTexts(algorithm, secret) ==
  (IF secret \in Secrets
   THEN {base64UrlEncode(JSON_stringify(x[1])) \o <<46>>
         \o base64UrlEncode(JSON_stringify(x[2])) :
           x \in {<<fullHeader(y[1], algorithm), y[2]>> :
                    y \in {z \in Headers \X Payloads :
                             algorithm \in KeyedAlgorithmsFor(z[1], z[2])}}}
   ELSE {})
  \cup (IF secret \in Secrets \/ algorithm = HS256
        THEN {AlgHeaderSegment(algorithm) \o <<46>> \o p : p \in RawPayloadSegments}
        ELSE {})
  \cup (IF algorithm = HS256
        THEN {SignedPart(generateSampleJwt(c)) : c \in SampleClocks}
             \cup {SignedPart(ExampleToken)}
        ELSE {})

(***************************************************************************)
(* The keyed hash.                                                         *)
(***************************************************************************)
\* The hash of CryptoJS.HmacSHA256, HmacSHA384 and HmacSHA512.
HashOf(bits) ==
  CASE bits = 256 -> SHA256
    [] bits = 384 -> SHA384
    [] bits = 512 -> SHA512

\* The algorithm that signs with HmacSHAn.
HmacAlgorithm(bits) ==
  CASE bits = 256 -> HS256
    [] bits = 384 -> HS384
    [] bits = 512 -> HS512

\* The digest bytes of CryptoJS.HmacSHAn(data, secret): the HMAC of the
\* UTF-8 bytes of data under the UTF-8 bytes of secret.
HmacDigest(bits, data, secret) ==
  HmacOf(HashOf(bits), TextEncoderEncode(secret), TextEncoderEncode(data))

\* The digests of the texts under the prepared key of a hash.
DigestsUnder(h, states, texts) ==
  [data \in texts |-> HmacWith(h, states, TextEncoderEncode(data))] @@ <<>>

\* The digests of the texts the sessions sign, as a table that is made
\* once: for every hash and secret the key is prepared once, and every text
\* is hashed under it.
KnownDigests ==
  [k \in {256, 384, 512} \X (Secrets \cup PageSecrets) |->
     DigestsUnder(HashOf(k[1]),
                  HmacKeyStates(HashOf(k[1]), TextEncoderEncode(k[2])),
                  SignedTexts(HmacAlgorithm(k[1]), k[2]))] @@ <<>>

\* The digest as the table has it, or as it is computed.
DigestIn(table, bits, data, secret) ==
  IF /\ <<bits, secret>> \in DOMAIN table
     /\ data \in DOMAIN table[<<bits, secret>>]
  THEN table[<<bits, secret>>][data]
  ELSE HmacDigest(bits, data, secret)

\* CryptoJS.HmacSHAn(data, secret): the digest bytes, looked up where the
\* digest is a known one.
Hmac(bits, data, secret) == DigestIn(KnownDigests, bits, data, secret)

\* The string has a surrogate code unit outside a surrogate pair.
HasLoneSurrogate(str) ==
  \E i \in 1..Len(str) :
    \/ IsHighSurrogate(str[i]) /\ ~(i < Len(str) /\ IsLowSurrogate(str[i + 1]))
    \/ IsLowSurrogate(str[i]) /\ ~(i > 1 /\ IsHighSurrogate(str[i - 1]))

\* CryptoJS.HmacSHAn(data, secret).toString(CryptoJS.enc.Base64) and the
\* conversion to base64url that follows it.  CryptoJS converts a string key
\* and a string message with encodeURIComponent, which throws a URIError on
\* a lone surrogate.
HmacSHA(bits, data, secret) ==
  IF HasLoneSurrogate(secret) \/ HasLoneSurrogate(data)
  THEN Thrown("URIError", "URI malformed", <<>>)
  ELSE Returned(ToBase64Url(Base64OfBytes(Hmac(bits, data, secret))))

\* throw new Error(`Unsupported algorithm: ${algorithm}`) with the text of
\* the template literal, or the TypeError of the template literal.
UnsupportedAlgorithm(text) ==
  IF text.ok THEN Thrown("Error", "Unsupported algorithm: ", text.v) ELSE text

\* The default case of signJwt: throw new Error(`Unsupported algorithm:
\* ${algorithm}`), or the TypeError of the template literal.
signJwtThrows(data, secret, algorithm) == UnsupportedAlgorithm(ToStringJS(algorithm))

\* The n of the HmacSHAn that the case of a keyed algorithm calls.
HmacBits(algorithm) == CHOOSE bits \in {256, 384, 512} : HmacAlgorithm(bits) = algorithm

\* The algorithm values of the cases of signJwt that call a keyed hash.
HmacAlgValues == {JStr(HS256), JStr(HS384), JStr(HS512)}

\* Faulty variant of signJwt: 'none' is signed like HS256.
signJwtNoneKeyed(data, secret, algorithm) ==
  CASE algorithm \in HmacAlgValues -> HmacSHA(HmacBits(algorithm.s), data, secret)
    [] algorithm = JStr(NoneAlg) -> HmacSHA(256, data, secret)
    [] OTHER -> signJwtThrows(data, secret, algorithm)

\* Faulty variant of signJwt: without the case 'none'.
signJwtWithoutNone(data, secret, algorithm) ==
  CASE algorithm \in HmacAlgValues -> HmacSHA(HmacBits(algorithm.s), data, secret)
    [] OTHER -> signJwtThrows(data, secret, algorithm)

\* signJwt(data, secret, algorithm): the switch on algorithm, whose cases
\* 'HS256', 'HS384' and 'HS512' return the HmacSHA256, HmacSHA384 and
\* HmacSHA512 of the data, whose case 'none' returns '', and whose default
\* case throws.
signJwt(data, secret, algorithm) ==
  CASE algorithm \in HmacAlgValues -> HmacSHA(HmacBits(algorithm.s), data, secret)
    [] algorithm = JStr(NoneAlg) -> Returned(<<>>)
    [] OTHER -> signJwtThrows(data, secret, algorithm)

\* return `${encodedHeader}.${encodedPayload}.${signature}`, or the
\* exception of signJwt.
encodeSigned(signingInput, signature) ==
  IF signature.ok THEN Returned(signingInput \o <<46>> \o signature.v) ELSE signature

\* encodeJwt after the segments are made: const signature =
\* signJwt(`${encodedHeader}.${encodedPayload}`, secret, algorithm).
encodeSegments(signingInput, secret, algorithm) ==
  encodeSigned(signingInput, signJwt(signingInput, secret, JStr(algorithm)))

\* The objects a call encodeJwt(header, payload, ...) starts with, under
\* the names of its body that refer to them: the two objects of the caller.
encodeObjects(header, payload) == [header |-> header, payload |-> payload]

\* Faulty variant of bindFullHeader: const fullHeader =
\* Object.assign(header, { alg: algorithm, typ: header.typ || 'JWT' }),
\* which defines alg and typ on the caller's object and binds fullHeader to
\* that same object.
bindFullHeaderAssigned(objects, algorithm) ==
  [header |-> fullHeader(objects.header, algorithm),
   payload |-> objects.payload,
   fullHeader |-> fullHeader(objects.header, algorithm)]

\* const fullHeader = { ...header, alg: algorithm, typ: ... }: the object
\* literal creates an object, the spread reads the properties of header
\* into it, alg and typ are defined on it, and fullHeader is bound to it.
\* The objects of header and payload are the targets of no write.
bindFullHeader(objects, algorithm) ==
  [header |-> objects.header,
   payload |-> objects.payload,
   fullHeader |-> fullHeader(objects.header, algorithm)]

\* encodeJwt after fullHeader is bound: JSON.stringify and base64UrlEncode
\* read objects.fullHeader and objects.payload into new strings, signJwt
\* signs them, and the call ends with the token or with the exception of
\* signJwt; objects is what the caller's references and fullHeader refer
\* to when it ends.
encodeBound(objects, secret, algorithm) ==
  [objects |-> objects,
   out |-> encodeSegments(base64UrlEncode(JSON_stringify(objects.fullHeader))
                          \o <<46>> \o base64UrlEncode(JSON_stringify(objects.payload)),
                          secret, algorithm)]

\* A call encodeJwt(header, payload, secret, algorithm) from its first
\* statement to its end: its outcome and the objects it leaves.
encodeJwtRun(header, payload, secret, algorithm) ==
  encodeBound(bindFullHeader(encodeObjects(header, payload), algorithm),
              secret, algorithm)

\* encodeJwt(header, payload, secret, algorithm): the token, or the
\* exception of signJwt, which encodeJwt does not catch.
encodeJwt(header, payload, secret, algorithm) ==
  encodeJwtRun(header, payload, secret, algorithm).out

\* algorithm: string = 'HS256', the value of an omitted argument.
DefaultAlgorithm == HS256

\* encodeJwt(header, payload, secret): the call without an algorithm.
encodeJwtDefault(header, payload, secret) ==
  encodeJwt(header, payload, secret, DefaultAlgorithm)

\* JSON.parse applied to the result bin of atob.
ParseDecoded(bin) == IF bin.ok THEN JSON_parse(bin.v) ELSE bin

\* JSON.parse(atob(segment))
ParseSegment(segment) == ParseDecoded(atob(segment))

\* Faulty variant of IsEmptyToken: !token.trim()
IsEmptyTokenTrimmed(token) ==
  \A i \in 1..Len(token) : token[i] \in {9, 10, 11, 12, 13, 32}

\* !token on a string: only the empty string is falsy.
IsEmptyToken(token) == token = <<>>

\* Faulty variant of WrongPartCount: parts.length < 3
WrongPartCountBelow(parts) == Len(parts) < 3

\* parts.length !== 3
WrongPartCount(parts) == Len(parts) # 3

\* Faulty variant of SignatureOf: the third segment without its whitespace.
SignatureOfTrimmed(parts) ==
  LET NotWs(c) == ~IsAsciiWhitespace(c) IN SelectSeq(parts[3], NotWs)

\* const signature = parts[2]: the third segment as written.
SignatureOf(parts) == parts[3]

\* decodeJwt after const payload = JSON.parse(atob(parts[1])).
decodePayload(parts, header, payload) ==
  IF ~payload.ok
  THEN [result |-> [isValid |-> FALSE, error |-> MessageOf(payload)],
        atobCalls |-> <<parts[1], parts[2]>>]
  ELSE [result |->
          [isValid |-> TRUE,
           decoded |-> [header |-> header, payload |-> payload.v,
                        signature |-> SignatureOf(parts)]],
        atobCalls |-> <<parts[1], parts[2]>>]

\* decodeJwt after const header = JSON.parse(atob(parts[0])).
decodeHeader(parts, header) ==
  IF ~header.ok
  THEN [result |-> [isValid |-> FALSE, error |-> MessageOf(header)],
        atobCalls |-> <<parts[1]>>]
  ELSE decodePayload(parts, header.v, ParseSegment(parts[2]))

\* decodeJwt after const parts = token.split('.').
decodeParts(parts) ==
  IF WrongPartCount(parts)
  THEN [result |->
          [isValid |-> FALSE,
           error |-> Message("Invalid token format. JWT should have three parts separated by dots.", <<>>)],
        atobCalls |-> <<>>]
  ELSE decodeHeader(parts, ParseSegment(parts[1]))

\* decodeJwt(token): the result and the segments handed to atob, in order.
decodeJwtRun(token) ==
  IF IsEmptyToken(token)
  THEN [result |-> [isValid |-> FALSE, error |-> Message("Token is empty", <<>>)],
        atobCalls |-> <<>>]
  ELSE decodeParts(Split(token))

\* decodeJwt(token).  No statement of decodeJwt outside its try block can
\* throw on a string, so the call always returns.
decodeJwt(token) == Returned(decodeJwtRun(token).result)

\* Faulty variant of verifyCompare: the error is set whatever isValid is.
verifyCompareErrorAlways(parts, expectedSignature) ==
  IF ~expectedSignature.ok THEN expectedSignature
  ELSE Returned([isValid |-> parts[3] = expectedSignature.v,
                 error |-> Message("Signature verification failed", <<>>)])

\* Faulty variant of verifyCompare: the error names the expected signature.
verifyCompareEchoesExpected(parts, expectedSignature) ==
  IF ~expectedSignature.ok THEN expectedSignature
  ELSE IF parts[3] = expectedSignature.v
  THEN Returned([isValid |-> TRUE, error |-> Undefined])
  ELSE Returned([isValid |-> FALSE,
                 error |-> Message("Signature verification failed: expected ",
                                   expectedSignature.v)])

\* verifyJwtSignature after signJwt: const isValid = signature ===
\* expectedSignature, or the exception of signJwt.
verifyCompare(parts, expectedSignature) ==
  IF ~expectedSignature.ok THEN expectedSignature
  ELSE IF parts[3] = expectedSignature.v
  THEN Returned([isValid |-> TRUE, error |-> Undefined])
  ELSE Returned([isValid |-> FALSE,
                 error |-> Message("Signature verification failed", <<>>)])

\* Faulty variant of verifyAlg: a token whose alg is 'none' is valid
\* whatever its signature.
verifyAlgAcceptsNone(parts, secret, alg) ==
  IF ~Truthy(alg)
  THEN Returned([isValid |-> FALSE,
                 error |-> Message("No algorithm specified in header", <<>>)])
  ELSE IF alg = JStr(NoneAlg)
  THEN Returned([isValid |-> TRUE, error |-> Undefined])
  ELSE verifyCompare(parts, signJwt(parts[1] \o <<46>> \o parts[2], secret, alg))

\* verifyJwtSignature after reading header.alg as alg.
verifyAlg(parts, secret, alg) ==
  IF ~Truthy(alg)
  THEN Returned([isValid |-> FALSE,
                 error |-> Message("No algorithm specified in header", <<>>)])
  ELSE verifyCompare(parts, signJwt(parts[1] \o <<46>> \o parts[2], secret, alg))

\* Faulty variant of verifyHeader: the payload segment is decoded and parsed
\* as well, and its exception ends the verification.
verifyHeaderParsesPayload(parts, secret, header) ==
  IF ~header.ok THEN header
  ELSE IF ~ParseSegment(parts[2]).ok THEN ParseSegment(parts[2])
  ELSE IF ~Read(header.v, ALG).ok THEN Read(header.v, ALG)
  ELSE verifyAlg(parts, secret, Read(header.v, ALG).v)

\* verifyJwtSignature after const header = JSON.parse(atob(encodedHeader));
\* header.alg throws a TypeError on null.
verifyHeader(parts, secret, header) ==
  IF ~header.ok THEN header
  ELSE IF ~Read(header.v, ALG).ok THEN Read(header.v, ALG)
  ELSE verifyAlg(parts, secret, Read(header.v, ALG).v)

\* The try block of verifyJwtSignature: its return value, or the exception
\* that leaves it.
verifyTry(parts, secret) == verifyHeader(parts, secret, ParseSegment(parts[1]))

\* Faulty variant of verifyCatch: no catch block, the exception propagates.
verifyCatchRethrows(attempt) == attempt

\* Faulty variant of verifyCatch: the fallback message for every exception.
verifyCatchGeneric(attempt) ==
  IF attempt.ok THEN attempt
  ELSE Returned([isValid |-> FALSE, error |-> Message("Verification failed", <<>>)])

\* The catch block of verifyJwtSignature: the exception's message becomes
\* the error of an invalid result.
verifyCatch(attempt) ==
  IF attempt.ok THEN attempt
  ELSE Returned([isValid |-> FALSE, error |-> MessageOf(attempt)])

\* Faulty variant of verifyJwtSignature: the segment count is checked before
\* the required arguments.
verifyJwtSignatureFormatFirst(token, secret) ==
  LET parts == Split(token) IN
    IF WrongPartCount(parts)
    THEN Returned([isValid |-> FALSE, error |-> Message("Invalid token format", <<>>)])
    ELSE IF token = <<>> \/ secret = <<>>
    THEN Returned([isValid |-> FALSE,
                   error |-> Message("Token and secret are required", <<>>)])
    ELSE verifyCatch(verifyTry(parts, secret))

\* verifyJwtSignature after const parts = token.split('.').
verifyParts(parts, secret) ==
  IF WrongPartCount(parts)
  THEN Returned([isValid |-> FALSE, error |-> Message("Invalid token format", <<>>)])
  ELSE verifyCatch(verifyTry(parts, secret))

\* verifyJwtSignature(token, secret)
verifyJwtSignature(token, secret) ==
  IF token = <<>> \/ secret = <<>>
  THEN Returned([isValid |-> FALSE,
                 error |-> Message("Token and secret are required", <<>>)])
  ELSE verifyParts(Split(token), secret)

\* result.error, undefined when the result has no such property.
ErrorOf(result) == IF "error" \in DOMAIN result THEN result.error ELSE Undefined

(***************************************************************************)
(* The claim evaluator.  Each function reads Date.now() itself; ms is the  *)
(* value that Date.now() returns during the call, in milliseconds.          *)
(***************************************************************************)
EXP == S("exp")
NBF == S("nbf")
IAT == S("iat")

\* Math.floor(Date.now() / 1000)
currentTime(ms) == JNum(ms \div 1000)

\* n < b on the number that a conversion returned, or what it threw.
NumberBelow(n, b) == IF n.ok THEN Returned(JBool(NumLess(n.v, b))) ELSE n

\* a < b where b is a number: a is converted to a number.
LessThan(a, b) == NumberBelow(ToNumber(a), b)

\* n > b on the number that a conversion returned, or what it threw.
NumberAbove(n, b) == IF n.ok THEN Returned(JBool(NumLess(b, n.v))) ELSE n

\* a > b where b is a number: a is converted to a number.
GreaterThan(a, b) == NumberAbove(ToNumber(a), b)

\* n >= b on the number that a conversion returned, or what it threw.
NumberAtLeast(n, b) == IF n.ok THEN Returned(JBool(NumLessEq(b, n.v))) ELSE n

\* a >= b where b is a number.
AtLeast(a, b) == NumberAtLeast(ToNumber(a), b)

\* Faulty variant of isTokenExpired: expired from a minute before exp.
isTokenExpiredWithLeeway(payload, ms) ==
  LET exp == Read(payload, EXP) IN
    IF ~exp.ok THEN exp
    ELSE IF ~Truthy(exp.v) THEN Returned(JBool(FALSE))
    ELSE LessThan(exp.v, NumAdd(currentTime(ms), JNum(60)))

\* isTokenExpired(payload)
isTokenExpired(payload, ms) ==
  LET exp == Read(payload, EXP) IN
    IF ~exp.ok THEN exp
    ELSE IF ~Truthy(exp.v) THEN Returned(JBool(FALSE))
    ELSE LessThan(exp.v, currentTime(ms))

\* Faulty variant of isTokenNotYetValid: payload.nbf >= currentTime
isTokenNotYetValidInclusive(payload, ms) ==
  LET nbf == Read(payload, NBF) IN
    IF ~nbf.ok THEN nbf
    ELSE IF ~Truthy(nbf.v) THEN Returned(JBool(FALSE))
    ELSE AtLeast(nbf.v, currentTime(ms))

\* isTokenNotYetValid(payload)
isTokenNotYetValid(payload, ms) ==
  LET nbf == Read(payload, NBF) IN
    IF ~nbf.ok THEN nbf
    ELSE IF ~Truthy(nbf.v) THEN Returned(JBool(FALSE))
    ELSE GreaterThan(nbf.v, currentTime(ms))

\* The bucket of a number of seconds that is not <= 0: the seconds of its
\* unit and the unit's name.  NaN is below no border and falls into the
\* last bucket.
Bucket(n) ==
  IF NumLess(n, JNum(60)) THEN [per |-> 1, unit |-> S(" seconds")]
  ELSE IF NumLess(n, JNum(3600)) THEN [per |-> 60, unit |-> S(" minutes")]
  ELSE IF NumLess(n, JNum(86400)) THEN [per |-> 3600, unit |-> S(" hours")]
  ELSE [per |-> 86400, unit |-> S(" days")]

\* `${n} seconds` in the first bucket, `${Math.floor(n / per)} unit` in the
\* others.
InBucket(n, bucket) ==
  NumberToString(IF bucket.per = 1 THEN n ELSE MathFloor(NumDivide(n, bucket.per)))
  \o bucket.unit

\* The four buckets of a number of seconds that is not <= 0, shared by
\* getTimeRemaining and getTokenAge: `${n} seconds`,
\* `${Math.floor(n / 60)} minutes`, ... hours, ... days.
formatSeconds(n) == InBucket(n, Bucket(n))

\* getTimeRemaining after const remainingSeconds = payload.exp - currentTime.
timeRemainingOf(remainingSeconds) ==
  IF NumLessEq(remainingSeconds, JNum(0)) THEN S("Expired")
  ELSE formatSeconds(remainingSeconds)

\* getTimeRemaining after the conversion of payload.exp to a number in
\* payload.exp - currentTime.
timeRemainingFrom(n, ms) ==
  IF ~n.ok THEN n
  ELSE Returned(JStr(timeRemainingOf(NumSubtract(n.v, currentTime(ms)))))

\* getTimeRemaining after reading payload.exp.
timeRemainingUntil(exp, ms) ==
  IF ~exp.ok THEN exp
  ELSE IF ~Truthy(exp.v) THEN Returned(JStr(S("No expiration")))
  ELSE timeRemainingFrom(ToNumber(exp.v), ms)

\* getTimeRemaining(payload)
getTimeRemaining(payload, ms) == timeRemainingUntil(Read(payload, EXP), ms)

\* getTokenAge after const ageSeconds = currentTime - payload.iat.
tokenAgeOf(ageSeconds) ==
  IF NumLessEq(ageSeconds, JNum(0)) THEN S("Just issued")
  ELSE formatSeconds(ageSeconds)

\* getTokenAge after the conversion of payload.iat to a number in
\* currentTime - payload.iat.
tokenAgeFrom(n, ms) ==
  IF ~n.ok THEN n
  ELSE Returned(JStr(tokenAgeOf(NumSubtract(currentTime(ms), n.v))))

\* getTokenAge after reading payload.iat.
tokenAgeSince(iat, ms) ==
  IF ~iat.ok THEN iat
  ELSE IF ~Truthy(iat.v) THEN Returned(JStr(S("Unknown")))
  ELSE tokenAgeFrom(ToNumber(iat.v), ms)

\* getTokenAge(payload)
getTokenAge(payload, ms) == tokenAgeSince(Read(payload, IAT), ms)

\* getSupportedAlgorithms()
getSupportedAlgorithms == <<HS256, HS384, HS512, NoneAlg>>

\* The identifiers getAlgorithmDescription has a description for.
RecognizedAlgorithms ==
  {S("HS256"), S("HS384"), S("HS512"), S("RS256"), S("RS384"), S("RS512"),
   S("ES256"), S("ES384"), S("ES512"), S("PS256"), S("PS384"), S("PS512"),
   S("none")}

\* A function value, named by the property that holds it.
JFn(name) == [t |-> "fn", name |-> name]

\* The methods an object literal inherits from Object.prototype.
ObjectPrototypeMethods ==
  {S("constructor"), S("hasOwnProperty"), S("isPrototypeOf"),
   S("propertyIsEnumerable"), S("toLocaleString"), S("toString"), S("valueOf"),
   S("__defineGetter__"), S("__defineSetter__"), S("__lookupGetter__"),
   S("__lookupSetter__")}

\* obj[key] on an object literal: the own property, else the property
\* inherited from Object.prototype (a method, or for __proto__ the
\* prototype object itself), else undefined.
LiteralGet(o, key) ==
  IF key \in Keys(o) THEN Get(o, key)
  ELSE IF key \in ObjectPrototypeMethods THEN JFn(key)
  ELSE IF key = S("__proto__") THEN JObj(<<>>)
  ELSE Undefined

\* const algorithms: Record<string, string> = { ... }
algorithms ==
  JObj(<< <<S("HS256"), JStr(S("HMAC with SHA-256"))>>,
          <<S("HS384"), JStr(S("HMAC with SHA-384"))>>,
          <<S("HS512"), JStr(S("HMAC with SHA-512"))>>,
          <<S("RS256"), JStr(S("RSA Signature with SHA-256"))>>,
          <<S("RS384"), JStr(S("RSA Signature with SHA-384"))>>,
          <<S("RS512"), JStr(S("RSA Signature with SHA-512"))>>,
          <<S("ES256"), JStr(S("ECDSA Signature with SHA-256"))>>,
          <<S("ES384"), JStr(S("ECDSA Signature with SHA-384"))>>,
          <<S("ES512"), JStr(S("ECDSA Signature with SHA-512"))>>,
          <<S("PS256"), JStr(S("RSASSA-PSS with SHA-256"))>>,
          <<S("PS384"), JStr(S("RSASSA-PSS with SHA-384"))>>,
          <<S("PS512"), JStr(S("RSASSA-PSS with SHA-512"))>>,
          <<S("none"), JStr(S("No digital signature or MAC"))>> >>)

\* getAlgorithmDescription(alg): algorithms[alg] || `Unknown algorithm:
\* ${alg}`, the value returned.
getAlgorithmDescription(alg) ==
  IF Truthy(LiteralGet(algorithms, alg))
  THEN LiteralGet(algorithms, alg)
  ELSE JStr(S("Unknown algorithm: ") \o alg)

(***************************************************************************)
(* The decode-only variant of jwt-utils: the module without encodeJwt,     *)
(* verifyJwtSignature and signJwt.  Its functions have the names of the    *)
(* full variant's; here they carry the prefix DecodeOnly_.                 *)
(***************************************************************************)
\* decodeJwt after const payload = JSON.parse(atob(parts[1])).
DecodeOnly_decodePayload(parts, header, payload) ==
  IF ~payload.ok
  THEN [isValid |-> FALSE, error |-> MessageOf(payload)]
  ELSE [isValid |-> TRUE,
        decoded |-> [header |-> header, payload |-> payload.v, signature |-> parts[3]]]

\* decodeJwt after const header = JSON.parse(atob(parts[0])).
DecodeOnly_decodeHeader(parts, header) ==
  IF ~header.ok
  THEN [isValid |-> FALSE, error |-> MessageOf(header)]
  ELSE DecodeOnly_decodePayload(parts, header.v, ParseSegment(parts[2]))

\* decodeJwt after const parts = token.split('.').
DecodeOnly_decodeParts(parts) ==
  IF Len(parts) # 3
  THEN [isValid |-> FALSE,
        error |-> Message("Invalid token format. JWT should have three parts separated by dots.", <<>>)]
  ELSE DecodeOnly_decodeHeader(parts, ParseSegment(parts[1]))

\* decodeJwt(token)
DecodeOnly_decodeJwt(token) ==
  IF token = <<>>
  THEN Returned([isValid |-> FALSE, error |-> Message("Token is empty", <<>>)])
  ELSE Returned(DecodeOnly_decodeParts(Split(token)))

\* isTokenExpired(payload)
DecodeOnly_isTokenExpired(payload, ms) ==
  LET exp == Read(payload, EXP) IN
    IF ~exp.ok THEN exp
    ELSE IF ~Truthy(exp.v) THEN Returned(JBool(FALSE))
    ELSE LessThan(exp.v, JNum(ms \div 1000))

\* Faulty variant of DecodeOnly_isTokenNotYetValid: payload.nbf >=
\* currentTime
DecodeOnly_isTokenNotYetValidInclusive(payload, ms) ==
  LET nbf == Read(payload, NBF) IN
    IF ~nbf.ok THEN nbf
    ELSE IF ~Truthy(nbf.v) THEN Returned(JBool(FALSE))
    ELSE AtLeast(nbf.v, JNum(ms \div 1000))

\* isTokenNotYetValid(payload)
DecodeOnly_isTokenNotYetValid(payload, ms) ==
  LET nbf == Read(payload, NBF) IN
    IF ~nbf.ok THEN nbf
    ELSE IF ~Truthy(nbf.v) THEN Returned(JBool(FALSE))
    ELSE GreaterThan(nbf.v, JNum(ms \div 1000))

\* getTimeRemaining after const remainingSeconds = payload.exp - currentTime.
DecodeOnly_timeRemainingOf(remainingSeconds) ==
  IF NumLessEq(remainingSeconds, JNum(0)) THEN S("Expired")
  ELSE InBucket(remainingSeconds, Bucket(remainingSeconds))

DecodeOnly_timeRemainingFrom(n, ms) ==
  IF ~n.ok THEN n
  ELSE Returned(JStr(DecodeOnly_timeRemainingOf(NumSubtract(n.v, JNum(ms \div 1000)))))

DecodeOnly_timeRemainingUntil(exp, ms) ==
  IF ~exp.ok THEN exp
  ELSE IF ~Truthy(exp.v) THEN Returned(JStr(S("No expiration")))
  ELSE DecodeOnly_timeRemainingFrom(ToNumber(exp.v), ms)

\* getTimeRemaining(payload)
DecodeOnly_getTimeRemaining(payload, ms) ==
  DecodeOnly_timeRemainingUntil(Read(payload, EXP), ms)

\* getTokenAge after const ageSeconds = currentTime - payload.iat.
DecodeOnly_tokenAgeOf(ageSeconds) ==
  IF NumLessEq(ageSeconds, JNum(0)) THEN S("Just issued")
  ELSE InBucket(ageSeconds, Bucket(ageSeconds))

DecodeOnly_tokenAgeFrom(n, ms) ==
  IF ~n.ok THEN n
  ELSE Returned(JStr(DecodeOnly_tokenAgeOf(NumSubtract(JNum(ms \div 1000), n.v))))

DecodeOnly_tokenAgeSince(iat, ms) ==
  IF ~iat.ok THEN iat
  ELSE IF ~Truthy(iat.v) THEN Returned(JStr(S("Unknown")))
  ELSE DecodeOnly_tokenAgeFrom(ToNumber(iat.v), ms)

\* getTokenAge(payload)
DecodeOnly_getTokenAge(payload, ms) == DecodeOnly_tokenAgeSince(Read(payload, IAT), ms)

\* const algorithms: Record<string, string> = { ... }
DecodeOnly_algorithms ==
  JObj(<< <<S("HS256"), JStr(S("HMAC with SHA-256"))>>,
          <<S("HS384"), JStr(S("HMAC with SHA-384"))>>,
          <<S("HS512"), JStr(S("HMAC with SHA-512"))>>,
          <<S("RS256"), JStr(S("RSA Signature with SHA-256"))>>,
          <<S("RS384"), JStr(S("RSA Signature with SHA-384"))>>,
          <<S("RS512"), JStr(S("RSA Signature with SHA-512"))>>,
          <<S("ES256"), JStr(S("ECDSA Signature with SHA-256"))>>,
          <<S("ES384"), JStr(S("ECDSA Signature with SHA-384"))>>,
          <<S("ES512"), JStr(S("ECDSA Signature with SHA-512"))>>,
          <<S("PS256"), JStr(S("RSASSA-PSS with SHA-256"))>>,
          <<S("PS384"), JStr(S("RSASSA-PSS with SHA-384"))>>,
          <<S("PS512"), JStr(S("RSASSA-PSS with SHA-512"))>>,
          <<S("none"), JStr(S("No digital signature or MAC"))>> >>)

\* getAlgorithmDescription(alg)
DecodeOnly_getAlgorithmDescription(alg) ==
  IF Truthy(LiteralGet(DecodeOnly_algorithms, alg))
  THEN LiteralGet(DecodeOnly_algorithms, alg)
  ELSE JStr(S("Unknown algorithm: ") \o alg)

(***************************************************************************)
(* The decoder of the JWT debugger page: the state token, secret,          *)
(* decodedToken, error and signatureValid of the component, and the effect *)
(* that depends on [token, secret].  pending says that token or secret was *)
(* set since the effect last ran.                                          *)
(***************************************************************************)
\* setError('')
NoError == Message("", <<>>)

\* result.error || 'Failed to decode token'
errorOrFallback(error) ==
  IF error = Undefined \/ error = NoError
  THEN Message("Failed to decode token", <<>>)
  ELSE error

\* The state of the component before its first effect: useState('') for
\* token, 'your-256-bit-secret' for secret, null for decodedToken, '' for
\* error and null for signatureValid.
InitialPage ==
  [token |-> <<>>, secret |-> S("your-256-bit-secret"), decodedToken |-> JNull,
   error |-> NoError, signatureValid |-> JNull, pending |-> TRUE]

\* The branch of the effect for an empty token.
effectEmpty(p) ==
  [p EXCEPT !.decodedToken = JNull, !.error = NoError, !.signatureValid = JNull,
            !.pending = FALSE]

\* The branch of the effect for a token that decodeJwt accepts: the
\* signature is verified if a secret is provided.
effectDecoded(p, result) ==
  [p EXCEPT !.decodedToken = result.decoded,
            !.error = NoError,
            !.signatureValid =
              IF p.secret # <<>>
              THEN JBool(verifyJwtSignature(p.token, p.secret).v.isValid)
              ELSE JNull,
            !.pending = FALSE]

\* Faulty variant of effectFailed: signatureValid is left as it was.
effectFailedKeepsSignature(p, result) ==
  [p EXCEPT !.decodedToken = JNull,
            !.error = errorOrFallback(ErrorOf(result)),
            !.pending = FALSE]

\* The branch of the effect for a token that decodeJwt rejects.
effectFailed(p, result) ==
  [p EXCEPT !.decodedToken = JNull,
            !.error = errorOrFallback(ErrorOf(result)),
            !.signatureValid = JNull,
            !.pending = FALSE]

\* The effect after const result = decodeJwt(token).
effectResult(p, result) ==
  IF result.isValid /\ "decoded" \in DOMAIN result
  THEN effectDecoded(p, result)
  ELSE effectFailed(p, result)

\* The decoder effect, run on the state p of the component.
decoderEffect(p) ==
  IF p.token = <<>> THEN effectEmpty(p) ELSE effectResult(p, decodeJwt(p.token).v)

(***************************************************************************)
(* Inputs: tokens, claim times and identifiers.                            *)
(***************************************************************************)
\* The longest whitespace-only token.
MaxWs == 2

\* The largest number of segments of a generated malformed token.
MaxSegments == 4

\* Algorithm arguments handed to encodeJwt: every identifier the
\* application recognizes and one it does not.
AlgorithmArguments == RecognizedAlgorithms \cup {S("UNKNOWN")}

\* The algorithm arguments handed to encodeJwt with a header and a payload.
AlgorithmArgumentsFor(h, p) ==
  (AlgorithmArguments \ HmacAlgorithms) \cup KeyedAlgorithmsFor(h, p)

\* Third segments for a header and a payload segment: empty, arbitrary, and
\* the signature under the secret 's' where the header is {"alg": a} with a
\* keyed algorithm a.
RawSignatures(h, p) ==
  {<<>>, S("sig")}
  \cup {signJwt(h \o <<46>> \o p, S("s"), JStr(a)).v :
          a \in {b \in HmacAlgorithms : AlgHeaderSegment(b) = h}}

\* The token of three segments.
RawToken3(h, p, sig) == h \o <<46>> \o p \o <<46>> \o sig

RECURSIVE Segments(_)
\* n segments "a" joined by dots.
Segments(n) == IF n = 1 THEN S("a") ELSE S("a.") \o Segments(n - 1)

\* Tokens that do not have three segments, whitespace-only tokens and the
\* empty token.
MalformedTokens ==
  {Segments(n) : n \in (1..MaxSegments) \ {3}}
  \cup {[i \in 1..n |-> 32] : n \in 0..MaxWs}
  \cup {<<9, 10>>, <<46>>, S(" . "),
        RawToken3(Btoa(S("{}")), Btoa(S("{}")), <<>>) \o S(".sig")}

\* Three-segment tokens.
WellFormedTokens ==
  UNION {{RawToken3(h, p, sig) : sig \in RawSignatures(h, p)} :
           <<h, p>> \in RawHeaderSegments \X RawPayloadSegments}

\* Tokens a caller hands to decodeJwt and verifyJwtSignature.
RawTokens == MalformedTokens \cup WellFormedTokens

\* The number of half seconds the clock advances during a session.
MaxTicks == 2

\* The number of calls of the claim evaluator in a session.
MaxCalls == 2

\* The distances, in seconds, between a time claim and the start of the
\* session: the last second of every bucket and the first of the next,
\* before and after the start.
ClaimOffsets == {0, 1, 59, 60, 3599, 3600, 86399, 86400, 172800}

\* The values of exp, nbf and iat: the epoch itself and times around the
\* start of the session.
ClaimTimes ==
  {0} \cup {StartSecond + d : d \in ClaimOffsets}
      \cup {StartSecond - d : d \in ClaimOffsets}

\* The payload decodeJwt returns for a payload segment of the JSON text.
ParsedPayload(text) == JSON_parse(S(text)).v

\* Payloads handed to the claim evaluator: one without time claims, one
\* for every claim time, and decoded ones: null, and claims that are
\* numbers with a fraction or beyond the range of doubles, strings,
\* booleans, arrays and objects.
EvaluatedPayloads ==
  {JObj(<<<<S("sub"), JStr(S("1234567890"))>>>>)}
  \cup {JObj(<<<<EXP, JNum(v)>>, <<NBF, JNum(v)>>, <<IAT, JNum(v)>>>>) :
          v \in ClaimTimes}
  \cup {ParsedPayload(text) :
          text \in
            {"null",
             "{\"exp\":200030.5,\"nbf\":200030.5,\"iat\":199970.5}",
             "{\"exp\":200000.5,\"nbf\":200000.5,\"iat\":199999.5}",
             "{\"exp\":0.5,\"nbf\":1.5,\"iat\":0.0001}",
             "{\"exp\":-0.5,\"nbf\":-5,\"iat\":-5}",
             "{\"exp\":1e400,\"nbf\":1e400,\"iat\":1e400}",
             "{\"exp\":1e-400,\"nbf\":1e-400,\"iat\":1e-400}",
             "{\"exp\":\"5\",\"nbf\":\"5\",\"iat\":\"5\"}",
             "{\"exp\":\"200001\",\"nbf\":\" 2.00001e5 \",\"iat\":\"0x30D3F\"}",
             "{\"exp\":\"abc\",\"nbf\":\"abc\",\"iat\":\"abc\"}",
             "{\"exp\":true,\"nbf\":true,\"iat\":true}",
             "{\"exp\":[],\"nbf\":[],\"iat\":[]}",
             "{\"exp\":[200001],\"nbf\":[200001],\"iat\":[199999]}",
             "{\"exp\":{},\"nbf\":{},\"iat\":{}}",
             "{\"exp\":{\"toString\":1},\"nbf\":{\"toString\":1},\"iat\":{\"toString\":1}}"}}

\* The identifiers getAlgorithmDescription is asked about: the registered
\* ones, unregistered ones, and names of members of Object.prototype.
DescribedIdentifiers ==
  RecognizedAlgorithms
  \cup {S("UNKNOWN"), S(""), S("hs256"), S("HS256 "), S("None"), S("EdDSA")}
  \cup {S("constructor"), S("toString"), S("valueOf"), S("hasOwnProperty"),
        S("__proto__")}

\* Tokens typed into the page: none, tokens signed under 's' with HS256 and
\* with 'none', one with a foreign signature, the example token of jwt.io,
\* and tokens decodeJwt rejects.
PageTokens ==
  {<<>>, S("a.a"), S("!!.!!.sig"), ExampleToken,
   RawToken3(AlgHeaderSegment(HS256), Btoa(S("{}")), S("sig")),
   RawToken3(AlgHeaderSegment(NoneAlg), Btoa(S("{}")), <<>>),
   RawToken3(AlgHeaderSegment(HS256), Btoa(S("{")), S("sig"))}
  \cup {encodeJwt(JObj(<<>>), JObj(<<>>), S("s"), HS256).v}

(***************************************************************************)
(* The caller: one session of calls on the engine.  A session either       *)
(* encodes a token from (header, payload, secret, algorithm) and then      *)
(* decodes and verifies it, or decodes and verifies a token it received,   *)
(* or evaluates the time claims of a payload while the clock advances, or  *)
(* asks for the description of an algorithm identifier, or generates the   *)
(* sample token and then decodes and verifies it, or makes one call on the *)
(* decode-only variant, or edits the token and the secret of the debugger  *)
(* page.                                                                   *)
(***************************************************************************)
VARIABLES
  origin,       \* "encode": the token is built by encodeJwt; "raw": received
  givenHeader,       \* encodeJwt's header argument
  givenPayload,      \* encodeJwt's payload argument
  givenSecret,       \* encodeJwt's secret argument
  givenAlgorithm,    \* encodeJwt's algorithm argument, Omitted if not passed
  givenToken,        \* the token handed to decodeJwt and verifyJwtSignature
  encodeCall,   \* the outcome of the encodeJwt call, once made
  decodeCall,   \* the outcome of the decodeJwt call, once made
  verifyCall,   \* the outcome of the verifyJwtSignature call, once made
  clock,        \* what Date.now() returns, in milliseconds
  claims,       \* the payload handed to the claim evaluator
  evalCalls,    \* the calls of the claim evaluator made so far, in order
  describeCall, \* the outcome of the getAlgorithmDescription call, once made
  sampleCall,   \* the outcome of the generateSampleJwt call, once made
  variantCall,  \* the outcome of the call on the decode-only variant, once made
  page          \* the decoder state of the JWT debugger page

vars == <<origin, givenHeader, givenPayload, givenSecret, givenAlgorithm, givenToken,
          encodeCall, decodeCall, verifyCall, clock, claims, evalCalls,
          describeCall, sampleCall, variantCall, page>>

NotCalled == [called |-> FALSE]

\* The algorithm argument of a call that passes none; it is no string.
Omitted == <<-1>>

Init ==
  /\ origin \in {"encode", "raw", "evaluate", "describe", "sample", "decodeOnly",
                  "page"}
  /\ IF origin = "encode"
     THEN /\ givenHeader \in Headers
          /\ givenPayload \in Payloads
          /\ givenSecret \in EncodeSecrets
          /\ givenAlgorithm \in
               AlgorithmArgumentsFor(givenHeader, givenPayload) \cup {Omitted}
          /\ givenToken = <<>>
     ELSE /\ givenHeader = JObj(<<>>)
          /\ givenPayload = JObj(<<>>)
          /\ givenSecret = <<>>
          /\ givenAlgorithm = HS256
          /\ givenToken \in IF origin = "raw" THEN RawTokens ELSE {<<>>}
  /\ clock \in IF origin = "sample" THEN SampleClocks ELSE {1000 * StartSecond}
  /\ claims \in IF origin = "evaluate" THEN EvaluatedPayloads ELSE {JObj(<<>>)}
  /\ evalCalls = <<>>
  /\ encodeCall = NotCalled
  /\ decodeCall = NotCalled
  /\ verifyCall = NotCalled
  /\ describeCall = NotCalled
  /\ sampleCall = NotCalled
  /\ variantCall = NotCalled
  /\ page = InitialPage

\* The caller has a token in hand.
HasToken ==
  \/ origin = "raw"
  \/ encodeCall.called /\ encodeCall.out.ok
  \/ sampleCall.called

\* The end of a call of encodeJwt made with args arguments: the caller
\* holds the token or the exception, and its header and payload are the
\* objects the call has left.
EncodeEnds(args, run) ==
  /\ encodeCall' = [called |-> TRUE, args |-> args, out |-> run.out]
  /\ givenToken' = IF run.out.ok THEN run.out.v ELSE givenToken
  /\ givenHeader' = run.objects.header
  /\ givenPayload' = run.objects.payload
  /\ UNCHANGED <<origin, givenSecret, givenAlgorithm, decodeCall, verifyCall,
                 clock, claims, evalCalls, describeCall, sampleCall,
                 variantCall, page>>

\* token = encodeJwt(header, payload, secret, algorithm)
Encode ==
  /\ origin = "encode"
  /\ givenAlgorithm # Omitted
  /\ ~encodeCall.called
  /\ EncodeEnds(4, encodeJwtRun(givenHeader, givenPayload, givenSecret, givenAlgorithm))

\* token = encodeJwt(header, payload, secret)
EncodeDefault ==
  /\ origin = "encode"
  /\ givenAlgorithm = Omitted
  /\ ~encodeCall.called
  /\ EncodeEnds(3, encodeJwtRun(givenHeader, givenPayload, givenSecret, DefaultAlgorithm))

\* The record of a decodeJwt call: its outcome and its calls of atob.
DecodeRecord(run) ==
  [called |-> TRUE, out |-> Returned(run.result), atobCalls |-> run.atobCalls]

\* decodeJwt(token)
Decode ==
  /\ HasToken
  /\ ~decodeCall.called
  /\ decodeCall' = DecodeRecord(decodeJwtRun(givenToken))
  /\ UNCHANGED <<origin, givenHeader, givenPayload, givenSecret, givenAlgorithm, givenToken,
                 encodeCall, verifyCall, clock, claims, evalCalls,
                 describeCall, sampleCall, variantCall, page>>

\* verifyJwtSignature(token, s)
Verify(s) ==
  /\ HasToken
  /\ ~verifyCall.called
  /\ verifyCall' = [called |-> TRUE, secret |-> s, out |-> verifyJwtSignature(givenToken, s)]
  /\ UNCHANGED <<origin, givenHeader, givenPayload, givenSecret, givenAlgorithm, givenToken,
                 encodeCall, decodeCall, clock, claims, evalCalls,
                 describeCall, sampleCall, variantCall, page>>

\* Half a second passes.
Tick ==
  /\ origin \in {"evaluate", "decodeOnly"}
  /\ clock < 1000 * StartSecond + 500 * MaxTicks
  /\ clock' = clock + 500
  /\ UNCHANGED <<origin, givenHeader, givenPayload, givenSecret, givenAlgorithm, givenToken,
                 encodeCall, decodeCall, verifyCall, claims, evalCalls,
                 describeCall, sampleCall, variantCall, page>>

\* The session may call the claim evaluator once more.
CanEvaluate == origin = "evaluate" /\ Len(evalCalls) < MaxCalls

\* The record of a call fn(claims) with the outcome out, a value returned or
\* an exception, while Date.now() was clock.
EvalRecord(fn, out) == [fn |-> fn, payload |-> claims, ms |-> clock, out |-> out]

\* isTokenExpired(claims)
IsTokenExpired ==
  /\ CanEvaluate
  /\ evalCalls' =
       Append(evalCalls, EvalRecord("isTokenExpired", isTokenExpired(claims, clock)))
  /\ UNCHANGED <<origin, givenHeader, givenPayload, givenSecret, givenAlgorithm, givenToken,
                 encodeCall, decodeCall, verifyCall, clock, claims,
                 describeCall, sampleCall, variantCall, page>>

\* isTokenNotYetValid(claims)
IsTokenNotYetValid ==
  /\ CanEvaluate
  /\ evalCalls' =
       Append(evalCalls,
              EvalRecord("isTokenNotYetValid",
                         isTokenNotYetValid(claims, clock)))
  /\ UNCHANGED <<origin, givenHeader, givenPayload, givenSecret, givenAlgorithm, givenToken,
                 encodeCall, decodeCall, verifyCall, clock, claims,
                 describeCall, sampleCall, variantCall, page>>

\* getTimeRemaining(claims)
GetTimeRemaining ==
  /\ CanEvaluate
  /\ evalCalls' =
       Append(evalCalls,
              EvalRecord("getTimeRemaining", getTimeRemaining(claims, clock)))
  /\ UNCHANGED <<origin, givenHeader, givenPayload, givenSecret, givenAlgorithm, givenToken,
                 encodeCall, decodeCall, verifyCall, clock, claims,
                 describeCall, sampleCall, variantCall, page>>

\* getTokenAge(claims)
GetTokenAge ==
  /\ CanEvaluate
  /\ evalCalls' =
       Append(evalCalls, EvalRecord("getTokenAge", getTokenAge(claims, clock)))
  /\ UNCHANGED <<origin, givenHeader, givenPayload, givenSecret, givenAlgorithm, givenToken,
                 encodeCall, decodeCall, verifyCall, clock, claims,
                 describeCall, sampleCall, variantCall, page>>

\* getAlgorithmDescription(alg)
GetAlgorithmDescription(alg) ==
  /\ origin = "describe"
  /\ ~describeCall.called
  /\ describeCall' = [called |-> TRUE, alg |-> alg, out |-> getAlgorithmDescription(alg)]
  /\ UNCHANGED <<origin, givenHeader, givenPayload, givenSecret, givenAlgorithm, givenToken,
                 encodeCall, decodeCall, verifyCall, clock, claims, evalCalls,
                 sampleCall, variantCall, page>>

\* token = generateSampleJwt()
GenerateSampleJwt ==
  /\ origin = "sample"
  /\ ~sampleCall.called
  /\ sampleCall' = [called |-> TRUE, ms |-> clock, out |-> generateSampleJwt(clock)]
  /\ givenToken' = sampleCall'.out
  /\ UNCHANGED <<origin, givenHeader, givenPayload, givenSecret, givenAlgorithm, encodeCall,
                 decodeCall, verifyCall, clock, claims, evalCalls, describeCall,
                 variantCall, page>>

\* The decode-only variant may be called.
CanCallVariant == origin = "decodeOnly" /\ ~variantCall.called

\* decodeJwt(t) of the decode-only variant
DecodeOnlyDecode(t) ==
  /\ CanCallVariant
  /\ variantCall' = [called |-> TRUE, fn |-> "decodeJwt", token |-> t,
                      result |-> DecodeOnly_decodeJwt(t)]
  /\ UNCHANGED <<origin, givenHeader, givenPayload, givenSecret, givenAlgorithm, givenToken,
                 encodeCall, decodeCall, verifyCall, clock, claims, evalCalls,
                 describeCall, sampleCall, page>>

\* isTokenExpired(p) of the decode-only variant
DecodeOnlyIsTokenExpired(p) ==
  /\ CanCallVariant
  /\ variantCall' = [called |-> TRUE, fn |-> "isTokenExpired", payload |-> p,
                      ms |-> clock, out |-> DecodeOnly_isTokenExpired(p, clock)]
  /\ UNCHANGED <<origin, givenHeader, givenPayload, givenSecret, givenAlgorithm, givenToken,
                 encodeCall, decodeCall, verifyCall, clock, claims, evalCalls,
                 describeCall, sampleCall, page>>

\* isTokenNotYetValid(p) of the decode-only variant
DecodeOnlyIsTokenNotYetValid(p) ==
  /\ CanCallVariant
  /\ variantCall' = [called |-> TRUE, fn |-> "isTokenNotYetValid", payload |-> p,
                      ms |-> clock,
                      out |-> DecodeOnly_isTokenNotYetValid(p, clock)]
  /\ UNCHANGED <<origin, givenHeader, givenPayload, givenSecret, givenAlgorithm, givenToken,
                 encodeCall, decodeCall, verifyCall, clock, claims, evalCalls,
                 describeCall, sampleCall, page>>

\* getTimeRemaining(p) of the decode-only variant
DecodeOnlyGetTimeRemaining(p) ==
  /\ CanCallVariant
  /\ variantCall' = [called |-> TRUE, fn |-> "getTimeRemaining", payload |-> p,
                      ms |-> clock, out |-> DecodeOnly_getTimeRemaining(p, clock)]
  /\ UNCHANGED <<origin, givenHeader, givenPayload, givenSecret, givenAlgorithm, givenToken,
                 encodeCall, decodeCall, verifyCall, clock, claims, evalCalls,
                 describeCall, sampleCall, page>>

\* getTokenAge(p) of the decode-only variant
DecodeOnlyGetTokenAge(p) ==
  /\ CanCallVariant
  /\ variantCall' = [called |-> TRUE, fn |-> "getTokenAge", payload |-> p,
                      ms |-> clock, out |-> DecodeOnly_getTokenAge(p, clock)]
  /\ UNCHANGED <<origin, givenHeader, givenPayload, givenSecret, givenAlgorithm, givenToken,
                 encodeCall, decodeCall, verifyCall, clock, claims, evalCalls,
                 describeCall, sampleCall, page>>

\* getAlgorithmDescription(alg) of the decode-only variant
DecodeOnlyGetAlgorithmDescription(alg) ==
  /\ CanCallVariant
  /\ variantCall' = [called |-> TRUE, fn |-> "getAlgorithmDescription", alg |-> alg,
                      description |-> DecodeOnly_getAlgorithmDescription(alg)]
  /\ UNCHANGED <<origin, givenHeader, givenPayload, givenSecret, givenAlgorithm, givenToken,
                 encodeCall, decodeCall, verifyCall, clock, claims, evalCalls,
                 describeCall, sampleCall, page>>

\* onChange of the token textarea: setToken(e.target.value)
SetToken(t) ==
  /\ origin = "page"
  /\ t # page.token
  /\ page' = [page EXCEPT !.token = t, !.pending = TRUE]
  /\ UNCHANGED <<origin, givenHeader, givenPayload, givenSecret, givenAlgorithm, givenToken,
                 encodeCall, decodeCall, verifyCall, clock, claims, evalCalls,
                 describeCall, sampleCall, variantCall>>

\* loadSampleToken: setToken(generateSampleJwt())
LoadSampleToken ==
  /\ origin = "page"
  /\ generateSampleJwt(clock) # page.token
  /\ page' = [page EXCEPT !.token = generateSampleJwt(clock), !.pending = TRUE]
  /\ UNCHANGED <<origin, givenHeader, givenPayload, givenSecret, givenAlgorithm, givenToken,
                 encodeCall, decodeCall, verifyCall, clock, claims, evalCalls,
                 describeCall, sampleCall, variantCall>>

\* onChange of the secret input: setSecret(e.target.value)
SetSecret(s) ==
  /\ origin = "page"
  /\ s # page.secret
  /\ page' = [page EXCEPT !.secret = s, !.pending = TRUE]
  /\ UNCHANGED <<origin, givenHeader, givenPayload, givenSecret, givenAlgorithm, givenToken,
                 encodeCall, decodeCall, verifyCall, clock, claims, evalCalls,
                 describeCall, sampleCall, variantCall>>

\* The decoder effect runs: after the first render, and after a render in
\* which token or secret has changed.
DecoderEffect ==
  /\ origin = "page"
  /\ page.pending
  /\ page' = decoderEffect(page)
  /\ UNCHANGED <<origin, givenHeader, givenPayload, givenSecret, givenAlgorithm, givenToken,
                 encodeCall, decodeCall, verifyCall, clock, claims, evalCalls,
                 describeCall, sampleCall, variantCall>>

Next ==
  \/ Encode
  \/ EncodeDefault
  \/ Decode
  \/ \E s \in VerifySecrets : Verify(s)
  \/ Tick
  \/ IsTokenExpired
  \/ IsTokenNotYetValid
  \/ GetTimeRemaining
  \/ GetTokenAge
  \/ \E alg \in DescribedIdentifiers : GetAlgorithmDescription(alg)
  \/ GenerateSampleJwt
  \/ \E t \in RawTokens : DecodeOnlyDecode(t)
  \/ \E p \in EvaluatedPayloads :
       \/ DecodeOnlyIsTokenExpired(p)
       \/ DecodeOnlyIsTokenNotYetValid(p)
       \/ DecodeOnlyGetTimeRemaining(p)
       \/ DecodeOnlyGetTokenAge(p)
  \/ \E alg \in DescribedIdentifiers : DecodeOnlyGetAlgorithmDescription(alg)
  \/ \E t \in PageTokens : SetToken(t)
  \/ LoadSampleToken
  \/ \E s \in PageSecrets : SetSecret(s)
  \/ DecoderEffect

Spec == Init /\ [][Next]_vars

(***************************************************************************)
(* Properties.                                                             *)
(***************************************************************************)
\* The calls of the session, once made.
Encoded ==
  origin = "encode" /\ encodeCall.called /\ encodeCall.args = 4 /\ encodeCall.out.ok
EncodedDefault ==
  origin = "encode" /\ encodeCall.called /\ encodeCall.args = 3 /\ encodeCall.out.ok
Decoded == decodeCall.called
Verified == verifyCall.called
DecodeResult == decodeCall.out.v
VerifyResult == verifyCall.out.v

EmptyTokenError == Message("Token is empty", <<>>)
DecodeFormatError ==
  Message("Invalid token format. JWT should have three parts separated by dots.", <<>>)
RequiredError == Message("Token and secret are required", <<>>)
VerifyFormatError == Message("Invalid token format", <<>>)
NoAlgorithmError == Message("No algorithm specified in header", <<>>)
MismatchError == Message("Signature verification failed", <<>>)

\* C1: round trip.  For every header, payload, secret and supported
\* algorithm, decoding the token that encodeJwt returned succeeds, yields a
\* payload equal to the original and a header whose alg is the algorithm.
C1_RoundTrip ==
  (Encoded /\ givenAlgorithm \in SupportedAlgorithms /\ Decoded) =>
    /\ decodeCall.out.ok
    /\ DecodeResult.isValid
    /\ DeepEqual(DecodeResult.decoded.payload, givenPayload)
    /\ Get(DecodeResult.decoded.header, ALG) = JStr(givenAlgorithm)

\* C2: verification accepts what encode produces.  For every header,
\* payload, supported algorithm and secret that verifyJwtSignature takes (a
\* non-empty one: the empty secret is refused by design, with "Token and
\* secret are required"), verifying the encoded token under the secret it
\* was signed with returns isValid true and no error.
C2_VerifyAcceptsEncoded ==
  (Encoded /\ givenAlgorithm \in SupportedAlgorithms /\ givenSecret # <<>>
     /\ Verified /\ verifyCall.secret = givenSecret) =>
    /\ verifyCall.out.ok
    /\ VerifyResult.isValid
    /\ ErrorOf(VerifyResult) = Undefined

\* C3: verification rejects a wrong secret.  For every header, payload,
\* supported algorithm and pair secret # wrongSecret, verifying the encoded
\* token under wrongSecret returns isValid false.
C3_VerifyRejectsWrongSecret ==
  (Encoded /\ givenAlgorithm \in SupportedAlgorithms
     /\ Verified /\ verifyCall.secret # givenSecret) =>
    /\ verifyCall.out.ok
    /\ ~VerifyResult.isValid

\* C4 as stated: no public operation throws; decodeJwt, encodeJwt and
\* verifyJwtSignature return a value on every input.
C4_NoOperationThrows ==
  /\ encodeCall.called => encodeCall.out.ok
  /\ decodeCall.called => decodeCall.out.ok
  /\ verifyCall.called => verifyCall.out.ok

\* The algorithm a call of encodeJwt is to use: its argument, HS256 when the
\* argument is omitted.
AlgorithmAsked == IF encodeCall.args = 4 THEN givenAlgorithm ELSE S("HS256")

\* The algorithm a call of encodeJwt runs with is a keyed hash and its
\* secret has a lone surrogate.
EncodeKeyIllFormed ==
  /\ AlgorithmAsked \in HmacAlgorithms
  /\ HasLoneSurrogate(givenSecret)

\* C4 amended: decodeJwt and verifyJwtSignature return a value on every
\* input and report a failure in it (isValid false and an error).  encodeJwt
\* returns a token exactly when its algorithm (HS256 when omitted) is none,
\* or is HS256, HS384 or HS512 and the secret has no lone surrogate;
\* otherwise an exception reaches its caller: the Error "Unsupported
\* algorithm: <alg>" of signJwt for every other algorithm, and the URIError
\* "URI malformed" of the keyed hash for HS256, HS384 and HS512 with a
\* secret that has a lone surrogate.
C4_OnlyEncodeThrows ==
  /\ decodeCall.called =>
       /\ decodeCall.out.ok
       /\ ~DecodeResult.isValid => ErrorOf(DecodeResult) # Undefined
  /\ verifyCall.called =>
       /\ verifyCall.out.ok
       /\ ~VerifyResult.isValid => ErrorOf(VerifyResult) # Undefined
  /\ encodeCall.called =>
       /\ encodeCall.out.ok <=>
            (AlgorithmAsked \in SupportedAlgorithms /\ ~EncodeKeyIllFormed)
       /\ (~encodeCall.out.ok /\ AlgorithmAsked \notin SupportedAlgorithms) =>
            /\ encodeCall.out.name = "Error"
            /\ MessageOf(encodeCall.out) = Message("Unsupported algorithm: ", givenAlgorithm)
       /\ (~encodeCall.out.ok /\ AlgorithmAsked \in SupportedAlgorithms) =>
            /\ encodeCall.out.name = "URIError"
            /\ MessageOf(encodeCall.out) = Message("URI malformed", <<>>)

\* C4 witness: encodeJwt was called with the unsupported algorithm RS256
\* and threw.
C4_Witness ==
  /\ encodeCall.called
  /\ ~encodeCall.out.ok
  /\ givenAlgorithm = S("RS256")

\* The header of a three-segment token, as verifyJwtSignature reads it.
TokenHeader == ParseSegment(Split(givenToken)[1])

\* The algorithm values signJwt executes.
SupportedAlgValues == {JStr(a) : a \in SupportedAlgorithms}

\* The token has three segments and a header that parses and names an
\* algorithm outside HS256, HS384, HS512 and none, and it was verified
\* under a non-empty secret, so that the signature was recomputed.
UnsupportedAlgorithmVerified ==
  /\ Verified /\ givenToken # <<>> /\ verifyCall.secret # <<>>
  /\ Len(Split(givenToken)) = 3
  /\ TokenHeader.ok /\ TokenHeader.v.t = "obj"
  /\ Truthy(Get(TokenHeader.v, ALG))
  /\ Get(TokenHeader.v, ALG) \notin SupportedAlgValues

\* C5 as stated: on a three-segment token whose header parses and names an
\* algorithm outside HS256, HS384, HS512 and none, verifyJwtSignature
\* returns isValid false with "Unsupported algorithm: <alg>" as error; the
\* exception does not leave verifyJwtSignature.
C5_UnsupportedAlgorithmMessage ==
  UnsupportedAlgorithmVerified =>
    LET text == ToStringJS(Get(TokenHeader.v, ALG)) IN
      /\ verifyCall.out.ok
      /\ ~VerifyResult.isValid
      /\ text.ok
      /\ ErrorOf(VerifyResult) = Message("Unsupported algorithm: ", text.v)

\* C5 amended: on such a token verifyJwtSignature returns isValid false
\* with the message of the signing failure as error, and the exception
\* does not leave verifyJwtSignature.  The message is "Unsupported
\* algorithm: <alg>", with the alg value as the template literal writes it,
\* where the value has a string form, and the message of the TypeError the
\* template literal raises where it has none.
C5_UnsupportedAlgorithmReported ==
  UnsupportedAlgorithmVerified =>
    LET text == ToStringJS(Get(TokenHeader.v, ALG)) IN
      /\ verifyCall.out.ok
      /\ ~VerifyResult.isValid
      /\ ErrorOf(VerifyResult) =
           IF text.ok THEN Message("Unsupported algorithm: ", text.v)
           ELSE MessageOf(text)

\* C5 witness: a token whose header names an algorithm that has no string
\* form, an object with a property toString, was verified under a non-empty
\* secret.
C5_Witness ==
  /\ UnsupportedAlgorithmVerified
  /\ ~ToStringJS(Get(TokenHeader.v, ALG)).ok

\* C6: verifyJwtSignature reports the first failing check of: (1) empty
\* token or secret; (2) not exactly 3 segments; (3) a header without alg;
\* (4) a signature that differs from the recomputed one, where the
\* signature could be recomputed.
C6_CheckOrder ==
  Verified =>
    LET s == verifyCall.secret
        parts == Split(givenToken)
        err == ErrorOf(VerifyResult)
        alg == Get(TokenHeader.v, ALG)
    IN /\ verifyCall.out.ok
       /\ (givenToken = <<>> \/ s = <<>>) => (~VerifyResult.isValid /\ err = RequiredError)
       /\ (givenToken # <<>> /\ s # <<>> /\ Len(parts) # 3) =>
            (~VerifyResult.isValid /\ err = VerifyFormatError)
       /\ (givenToken # <<>> /\ s # <<>> /\ Len(parts) = 3
             /\ TokenHeader.ok /\ TokenHeader.v.t = "obj"
             /\ ALG \notin Keys(TokenHeader.v)) =>
            (~VerifyResult.isValid /\ err = NoAlgorithmError)
       /\ (givenToken # <<>> /\ s # <<>> /\ Len(parts) = 3
             /\ TokenHeader.ok /\ TokenHeader.v.t = "obj"
             /\ alg \in SupportedAlgValues
             /\ signJwt(parts[1] \o <<46>> \o parts[2], s, alg).ok
             /\ parts[3] # signJwt(parts[1] \o <<46>> \o parts[2], s, alg).v) =>
            (~VerifyResult.isValid /\ err = MismatchError)

\* C6 witness: a token of two segments was verified under the empty
\* secret, so checks (1) and (2) both fail and (1) is the one reported.
C6_Witness ==
  /\ Verified
  /\ verifyCall.secret = <<>>
  /\ Len(Split(givenToken)) = 2
  /\ ErrorOf(VerifyResult) = RequiredError

\* Whether a token is non-empty and made of whitespace only.
IsWhitespaceOnly(t) ==
  t # <<>> /\ \A i \in 1..Len(t) : t[i] \in {9, 10, 11, 12, 13, 32}

\* C7 as stated: decodeJwt fails with "Token is empty" for the empty
\* string and for every whitespace-only token.
C7_WhitespaceIsEmpty ==
  (Decoded /\ (givenToken = <<>> \/ IsWhitespaceOnly(givenToken))) =>
    /\ ~DecodeResult.isValid
    /\ ErrorOf(DecodeResult) = EmptyTokenError

\* C7 amended: decodeJwt fails with "Token is empty" for the empty string
\* and for no other token; a whitespace-only token fails with the
\* three-segment format error.
C7_OnlyEmptyStringIsEmpty ==
  Decoded =>
    /\ givenToken = <<>> => (~DecodeResult.isValid /\ ErrorOf(DecodeResult) = EmptyTokenError)
    /\ givenToken # <<>> => ErrorOf(DecodeResult) # EmptyTokenError
    /\ IsWhitespaceOnly(givenToken) =>
         (~DecodeResult.isValid /\ ErrorOf(DecodeResult) = DecodeFormatError)

\* C7 witness: a whitespace-only token was decoded.
C7_Witness == Decoded /\ IsWhitespaceOnly(givenToken)

\* C8: on a non-empty token that does not split into exactly 3 segments
\* decodeJwt fails with the three-segment format error and hands no segment
\* to the base64 decoder.
C8_FormatErrorBeforeDecoding ==
  (Decoded /\ givenToken # <<>> /\ Len(Split(givenToken)) # 3) =>
    /\ ~DecodeResult.isValid
    /\ ErrorOf(DecodeResult) = DecodeFormatError
    /\ decodeCall.atobCalls = <<>>

\* C8 witness: a token of four segments, the first two of which decode to
\* JSON objects, was decoded.
C8_Witness ==
  /\ Decoded
  /\ Len(Split(givenToken)) = 4
  /\ ParseSegment(Split(givenToken)[1]).ok
  /\ ParseSegment(Split(givenToken)[2]).ok

\* C9: a successful decodeJwt result holds structured claim maps: whenever
\* isValid is true, decoded.header and decoded.payload are JSON objects.
C9_DecodedAreObjects ==
  (Decoded /\ DecodeResult.isValid) =>
    /\ DecodeResult.decoded.header.t = "obj"
    /\ DecodeResult.decoded.payload.t = "obj"

\* Third segments a token may carry instead of its own.
OtherSignatures == {<<>>, S("sig"), S("= +/"), S("e30")}

\* C10: decoding is independent of the signature.  Two three-segment tokens
\* that differ only in the third segment get the same isValid, header,
\* payload and error, and on success decoded.signature is the third
\* segment as written.
C10_SignatureIndependence ==
  (Decoded /\ Len(Split(givenToken)) = 3) =>
    LET parts == Split(givenToken) IN
      /\ DecodeResult.isValid => DecodeResult.decoded.signature = parts[3]
      /\ \A sig \in OtherSignatures :
           LET other == decodeJwt(RawToken3(parts[1], parts[2], sig)).v IN
             /\ other.isValid = DecodeResult.isValid
             /\ ErrorOf(other) = ErrorOf(DecodeResult)
             /\ other.isValid =>
                  /\ other.decoded.header = DecodeResult.decoded.header
                  /\ other.decoded.payload = DecodeResult.decoded.payload
                  /\ other.decoded.signature = sig

\* C10 witness: a token with an empty third segment was decoded
\* successfully.
C10_Witness ==
  /\ Decoded
  /\ DecodeResult.isValid
  /\ Len(Split(givenToken)) = 3
  /\ Split(givenToken)[3] = <<>>

\* C11: in every result of verifyJwtSignature and of decodeJwt, error is
\* set (not undefined) exactly when isValid is false, and the result of
\* decodeJwt has a decoded property exactly when isValid is true.
C11_ErrorIffInvalid ==
  /\ Verified =>
       /\ verifyCall.out.ok
       /\ ErrorOf(VerifyResult) # Undefined <=> ~VerifyResult.isValid
  /\ Decoded =>
       /\ decodeCall.out.ok
       /\ ErrorOf(DecodeResult) # Undefined <=> ~DecodeResult.isValid
       /\ "decoded" \in DOMAIN DecodeResult <=> DecodeResult.isValid

\* C11 witness: one token was verified with isValid true and decoded with
\* isValid false, so both sides of the equivalence occur.
C11_Witness ==
  /\ Verified
  /\ VerifyResult.isValid
  /\ Decoded
  /\ ~DecodeResult.isValid

\* encodeJwt returned a token, with or without an algorithm argument.
EncodedAny == Encoded \/ EncodedDefault

\* C12: the typ default.  A header without typ decodes to typ 'JWT', and a
\* header with a caller-supplied typ, the empty string included, decodes to
\* exactly that value.
C12_TypOnlyWhenAbsent ==
  (EncodedAny /\ Decoded /\ DecodeResult.isValid) =>
    Get(DecodeResult.decoded.header, TYP) =
      IF TYP \in Keys(givenHeader) THEN Get(givenHeader, TYP) ELSE JStr(JWT)

\* A base64url text in the standard base64 alphabet: '-' is '+', '_' is '/'.
FromBase64Url(seg) ==
  [i \in 1..Len(seg) |->
     IF seg[i] = 45 THEN 43 ELSE IF seg[i] = 95 THEN 47 ELSE seg[i]]

\* The header that the first segment of the token encodes, read as
\* base64url.
HeaderInToken == ParseSegment(FromBase64Url(Split(givenToken)[1]))

\* C13 as stated: the header encoded in the token has alg equal to the
\* algorithm argument (HS256 when it is omitted) whatever alg the caller's
\* header has, every other key of the caller's header, typ included, is
\* kept with the caller's value, and it is the header that is signed: the
\* signature is that of the token's first two segments under that
\* algorithm.
C13_AlgForced ==
  EncodedAny =>
    LET parts == Split(givenToken) IN
      /\ HeaderInToken.ok
      /\ HeaderInToken.v.t = "obj"
      /\ Get(HeaderInToken.v, ALG) = JStr(AlgorithmAsked)
      /\ Keys(givenHeader) \subseteq Keys(HeaderInToken.v)
      /\ \A k \in Keys(givenHeader) \ {ALG} :
           Get(HeaderInToken.v, k) = Get(givenHeader, k)
      /\ parts[3] =
           signJwt(parts[1] \o <<46>> \o parts[2], givenSecret, JStr(AlgorithmAsked)).v

\* A character of the base64url alphabet: A-Z, a-z, 0-9, '-' and '_'.
IsBase64UrlChar(c) ==
  \/ c >= 65 /\ c <= 90
  \/ c >= 97 /\ c <= 122
  \/ c >= 48 /\ c <= 57
  \/ c = 45
  \/ c = 95

\* seg is the unpadded base64url encoding of bytes: it has four characters
\* of the alphabet for every three bytes, rounded up, and it decodes to the
\* bytes.
IsBase64UrlOf(seg, bytes) ==
  /\ \A i \in 1..Len(seg) : IsBase64UrlChar(seg[i])
  /\ Len(seg) = (4 * Len(bytes) + 2) \div 3
  /\ atob(FromBase64Url(seg)) = Returned(bytes)

\* C14: the wire format.  A token returned by encodeJwt splits on '.' into
\* exactly three segments; the first two are the unpadded base64url
\* encodings of the UTF-8 bytes of the normalized header JSON and of the
\* payload JSON; the third is signJwt(seg1 + '.' + seg2, secret, algorithm).
C14_WireFormat ==
  (EncodedAny /\ AlgorithmAsked \in SupportedAlgorithms) =>
    LET parts == Split(givenToken) IN
      /\ Len(parts) = 3
      /\ IsBase64UrlOf(parts[1],
           TextEncoderEncode(JSON_stringify(fullHeader(givenHeader, AlgorithmAsked))))
      /\ IsBase64UrlOf(parts[2], TextEncoderEncode(JSON_stringify(givenPayload)))
      /\ signJwt(parts[1] \o <<46>> \o parts[2], givenSecret, JStr(AlgorithmAsked)) =
           Returned(parts[3])

\* C14 witness: a token whose header segment has a character that differs
\* between base64 and base64url, and whose payload segment would be padded
\* in base64.
C14_Witness ==
  /\ Encoded
  /\ \E i \in 1..Len(Split(givenToken)[1]) : Split(givenToken)[1][i] \in {45, 95}
  /\ Len(Split(givenToken)[2]) % 4 # 0

\* Call i of the session is a call of fn.
IsCallOf(i, fn) == i \in 1..Len(evalCalls) /\ evalCalls[i].fn = fn

\* Call i returned the boolean b.
ReturnedBool(i, b) == evalCalls[i].out = Returned(JBool(b))

\* Call i returned the text s.
ReturnedText(i, s) == evalCalls[i].out = Returned(JStr(s))

\* The reference time of call i: the whole seconds since the epoch when it
\* was made.
NowOf(i) == JNum(evalCalls[i].ms \div 1000)

\* The payload of call i is a claim map.
IsClaimMap(i) == evalCalls[i].payload.t = "obj"

\* The payload of call i has the claim.
Has(i, claim) == IsClaimMap(i) /\ claim \in Keys(evalCalls[i].payload)

\* The value of a time claim of the payload of call i.
ClaimOf(i, claim) == Get(evalCalls[i].payload, claim)

\* The value is a number that is a non-negative integer.
IsNaturalNumber(v) ==
  /\ v.t = "num"
  /\ IF IsSmall(v) THEN v.n >= 0 ELSE ~IsSpecial(v) /\ ~v.neg /\ v.q >= 0

\* The payload of call i has the claim as a non-negative integer.
HasNatural(i, claim) == Has(i, claim) /\ IsNaturalNumber(ClaimOf(i, claim))

\* The payload of call i has the claim as a number.
HasNumber(i, claim) == Has(i, claim) /\ ClaimOf(i, claim).t = "num"

\* C15: isTokenExpired returns false when the payload has no exp, and
\* exactly exp < now when exp is present as a non-negative integer, exp = 0
\* included.
C15_ExpiredIffExpBeforeNow ==
  \A i \in 1..Len(evalCalls) :
    (IsCallOf(i, "isTokenExpired") /\ IsClaimMap(i)) =>
      /\ ~Has(i, EXP) => ReturnedBool(i, FALSE)
      /\ HasNatural(i, EXP) => ReturnedBool(i, NumLess(ClaimOf(i, EXP), NowOf(i)))

\* C16: isTokenNotYetValid returns false when the payload has no nbf, and
\* exactly nbf > now when nbf is present, so false at the instant nbf = now.
\* now is the whole seconds of Date.now() during the call.  nbf > now is
\* the comparison of JavaScript, which converts nbf to a number; it has a
\* value unless that conversion throws.
C16_NotYetValidIffNbfAfterNow ==
  \A i \in 1..Len(evalCalls) :
    (IsCallOf(i, "isTokenNotYetValid") /\ IsClaimMap(i)) =>
      /\ ~Has(i, NBF) => ReturnedBool(i, FALSE)
      /\ (Has(i, NBF) /\ ToNumber(ClaimOf(i, NBF)).ok) =>
           ReturnedBool(i, NumLess(NowOf(i), ToNumber(ClaimOf(i, NBF)).v))

\* C16 witness: isTokenNotYetValid was called at the instant nbf = now,
\* after the clock had advanced.
C16_Witness ==
  \E i \in 1..Len(evalCalls) :
    /\ IsCallOf(i, "isTokenNotYetValid")
    /\ Has(i, NBF)
    /\ ClaimOf(i, NBF) = NowOf(i)
    /\ evalCalls[i].ms > 1000 * StartSecond
    /\ ReturnedBool(i, FALSE)

\* The text for a positive number n of seconds, as the claims state it:
\* 'n seconds' below a minute, whole minutes below an hour, whole hours
\* below a day, whole days from there on.
Bucketed(n) ==
  CASE NumLess(JNum(0), n) /\ NumLess(n, JNum(60)) ->
         NumberToString(n) \o S(" seconds")
    [] NumLessEq(JNum(60), n) /\ NumLess(n, JNum(3600)) ->
         NumberToString(MathFloor(NumDivide(n, 60))) \o S(" minutes")
    [] NumLessEq(JNum(3600), n) /\ NumLess(n, JNum(86400)) ->
         NumberToString(MathFloor(NumDivide(n, 3600))) \o S(" hours")
    [] NumLessEq(JNum(86400), n) ->
         NumberToString(MathFloor(NumDivide(n, 86400))) \o S(" days")

\* C17: getTimeRemaining is the piecewise function of n = exp - now: 'No
\* expiration' without exp; 'Expired' when exp is present (exp = 0
\* included) and n <= 0; otherwise the bucket of n.
C17_TimeRemainingPiecewise ==
  \A i \in 1..Len(evalCalls) :
    (IsCallOf(i, "getTimeRemaining") /\ IsClaimMap(i)) =>
      /\ ~Has(i, EXP) => ReturnedText(i, S("No expiration"))
      /\ HasNumber(i, EXP) =>
           LET n == NumSubtract(ClaimOf(i, EXP), NowOf(i)) IN
             ReturnedText(i, IF NumLessEq(n, JNum(0)) THEN S("Expired")
                             ELSE Bucketed(n))

\* C18: getTokenAge is the piecewise function of a = now - iat: 'Unknown'
\* without iat; 'Just issued' when iat is present (iat = 0 included) and
\* a <= 0; otherwise the bucket of a.
C18_TokenAgePiecewise ==
  \A i \in 1..Len(evalCalls) :
    (IsCallOf(i, "getTokenAge") /\ IsClaimMap(i)) =>
      /\ ~Has(i, IAT) => ReturnedText(i, S("Unknown"))
      /\ HasNumber(i, IAT) =>
           LET a == NumSubtract(NowOf(i), ClaimOf(i, IAT)) IN
             ReturnedText(i, IF NumLessEq(a, JNum(0)) THEN S("Just issued")
                             ELSE Bucketed(a))

\* C19: the claim evaluator is deterministic in its explicit inputs. The
\* functions take one explicit input, the payload, so two calls of the
\* same function with the same payload return the same result whatever the
\* system clock reads between them.
C19_DeterministicInExplicitInputs ==
  \A i, j \in 1..Len(evalCalls) :
    (evalCalls[i].fn = evalCalls[j].fn
      /\ evalCalls[i].payload = evalCalls[j].payload)
    => evalCalls[i].out = evalCalls[j].out

\* The list the claim states.
ClaimedList == <<S("HS256"), S("HS384"), S("HS512"), S("none")>>

\* The identifiers getSupportedAlgorithms lists.
ListedAlgorithms == {getSupportedAlgorithms[i] : i \in 1..Len(getSupportedAlgorithms)}

\* The signature signJwt returned to the encodeJwt call of the session: the
\* third segment of the token.
SignatureSigned == Split(encodeCall.out.v)[3]

C21_DescriptionOrEcho ==
  describeCall.called =>
    /\ describeCall.out.t = "str"
    /\ describeCall.alg \in RecognizedAlgorithms
         => describeCall.out = Get(algorithms, describeCall.alg)
    /\ describeCall.alg = S("HS256")
         => describeCall.out = JStr(S("HMAC with SHA-256"))
    /\ describeCall.alg = S("none")
         => describeCall.out = JStr(S("No digital signature or MAC"))
    /\ describeCall.alg \notin RecognizedAlgorithms
         => describeCall.out = JStr(S("Unknown algorithm: ") \o describeCall.alg)

\* The message of the URIError that CryptoJS lets through when a key or a
\* message is not well-formed UTF-16.
UriMalformedError == Message("URI malformed", <<>>)

\* The result of verifyJwtSignature on the token of the session under the
\* secret s.
VerifyUnder(s) == verifyJwtSignature(givenToken, s).v

\* The token of the session was verified under a non-empty secret and found
\* invalid.
VerifiedInvalid == Verified /\ verifyCall.secret # <<>> /\ ~VerifyResult.isValid

\* C22 as stated: for every token and every two non-empty secrets under
\* which verifyJwtSignature(token, s) is invalid, the error is the same: the
\* error text is a function of the token alone.
C22_ErrorFunctionOfToken ==
  VerifiedInvalid =>
    \A s2 \in VerifySecrets \ {<<>>} :
      ~VerifyUnder(s2).isValid => ErrorOf(VerifyUnder(s2)) = ErrorOf(VerifyResult)

\* C22, amended: for every token and every two non-empty well-formed
\* secrets under which the token is invalid, the error is the same; under a
\* secret that is not well-formed the error is that same error or 'URI
\* malformed'.  No error carries any part of the secret.
C22_ErrorNeverEchoesSecret ==
  VerifiedInvalid =>
    \A s2 \in VerifySecrets \ {<<>>} :
      (~VerifyUnder(s2).isValid /\ ~HasLoneSurrogate(s2)) =>
        \/ ErrorOf(VerifyResult) = ErrorOf(VerifyUnder(s2))
        \/ /\ HasLoneSurrogate(verifyCall.secret)
           /\ ErrorOf(VerifyResult) = UriMalformedError

\* C22 witness: a token was found invalid under two different well-formed
\* secrets, once for each in its own session, with 'Signature verification
\* failed' both times.
C22_Witness ==
  /\ VerifiedInvalid
  /\ ~HasLoneSurrogate(verifyCall.secret)
  /\ ErrorOf(VerifyResult) = MismatchError
  /\ \E s2 \in VerifySecrets \ {<<>>, verifyCall.secret} :
       /\ ~HasLoneSurrogate(s2)
       /\ ~VerifyUnder(s2).isValid
       /\ ErrorOf(VerifyUnder(s2)) = MismatchError

\* C23: whatever the clock reads, generateSampleJwt returns a token of
\* exactly three '.'-separated segments that decodeJwt accepts, with
\* header.alg 'HS256', payload name 'John Doe' and exp = iat + 3600, which
\* is not expired at the clock reading it was generated at.
C23_SampleDecodes ==
  /\ sampleCall.called => Len(Split(sampleCall.out)) = 3
  /\ (sampleCall.called /\ Decoded) =>
       /\ DecodeResult.isValid
       /\ Get(DecodeResult.decoded.header, ALG) = JStr(S("HS256"))
       /\ Get(DecodeResult.decoded.payload, S("name")) = JStr(S("John Doe"))
       /\ Get(DecodeResult.decoded.payload, EXP)
            = NumAdd(Get(DecodeResult.decoded.payload, IAT), JNum(3600))
       /\ isTokenExpired(DecodeResult.decoded.payload, sampleCall.ms)
            = Returned(JBool(FALSE))

\* C23 witness: a sample token generated at the epoch, where iat is 0, was
\* decoded.
C23_Witness ==
  /\ sampleCall.called
  /\ sampleCall.ms = 0
  /\ Decoded
  /\ DecodeResult.isValid
  /\ Get(DecodeResult.decoded.payload, IAT) = JNum(0)

\* seg1 + '.' + seg2 of the token of the session, the text that is signed.
SignedText == Split(givenToken)[1] \o <<46>> \o Split(givenToken)[2]

\* The token of the session has everything a valid token has under the
\* secret s: both are non-empty, the token has exactly three segments, its
\* first segment decodes and parses to a header with an alg, the alg is one
\* of HS256, HS384, HS512, none, and the third segment is the signature of
\* the first two under s.
ValidUnder(s) ==
  /\ givenToken # <<>>
  /\ s # <<>>
  /\ Len(Split(givenToken)) = 3
  /\ TokenHeader.ok
  /\ Get(TokenHeader.v, ALG) # Undefined
  /\ Get(TokenHeader.v, ALG) \in {JStr(a) : a \in {S("HS256"), S("HS384"), S("HS512"), S("none")}}
  /\ signJwt(SignedText, s, Get(TokenHeader.v, ALG)).ok
  /\ Split(givenToken)[3] = signJwt(SignedText, s, Get(TokenHeader.v, ALG)).v

\* C24: verifyJwtSignature(token, secret).isValid is true if and only if
\* token and secret are non-empty, the token has exactly 3 segments, the
\* first decodes and parses to a header with a present alg in {HS256, HS384,
\* HS512, none}, and the third segment is string-equal to signJwt(seg1 +
\* '.' + seg2, secret, alg).
C24_ValidIffAllChecksPass ==
  Verified => (VerifyResult.isValid <=> ValidUnder(verifyCall.secret))

\* C24 witness: a received token signed with HS512 was verified under the
\* secret it was signed with and found valid.
C24_Witness ==
  /\ origin = "raw"
  /\ Verified
  /\ VerifyResult.isValid
  /\ Get(TokenHeader.v, ALG) = JStr(S("HS512"))
  /\ ValidUnder(verifyCall.secret)

\* The second segment of the token of the session is not the base64 of a
\* JSON text, so decodeJwt rejects the token.
PayloadUndecodable ==
  /\ Len(Split(givenToken)) = 3
  /\ ~ParseSegment(Split(givenToken)[2]).ok
  /\ ~decodeJwt(givenToken).v.isValid

\* C25: verification does not depend on the payload being decodable.  A
\* three-segment token whose payload segment is not valid base64 or not
\* JSON, which decodeJwt rejects, is valid when its third segment matches
\* the signature recomputed over the raw segments, and only then; when it
\* is invalid and its header segment decodes, the error is not the one that
\* decoding the payload segment raises.
C25_PayloadNotDecoded ==
  (Verified /\ verifyCall.secret # <<>> /\ PayloadUndecodable) =>
    /\ VerifyResult.isValid <=>
         /\ TokenHeader.ok
         /\ signJwt(SignedText, verifyCall.secret, Get(TokenHeader.v, ALG)).ok
         /\ Split(givenToken)[3]
              = signJwt(SignedText, verifyCall.secret, Get(TokenHeader.v, ALG)).v
    /\ ~VerifyResult.isValid =>
         ErrorOf(VerifyResult) # MessageOf(ParseSegment(Split(givenToken)[2]))
         \/ ~TokenHeader.ok

\* C25 witness: a token whose payload segment is '!!', signed over its raw
\* segments, was verified and found valid.
C25_Witness ==
  /\ Verified
  /\ VerifyResult.isValid
  /\ PayloadUndecodable
  /\ Split(givenToken)[2] = S("!!")

\* C26: 'none' is signable and verifiable with an empty signature.
\* encodeJwt with 'none' returns a token that ends in '.', the signature of
\* signJwt being '' whatever the message and the secret; and
\* verifyJwtSignature reports a three-segment token whose header alg is
\* 'none' as valid under every non-empty secret exactly when its third
\* segment is the empty string.
C26_NoneIsEmptySignature ==
  /\ (encodeCall.called /\ encodeCall.args = 4 /\ givenAlgorithm = S("none")) =>
       /\ encodeCall.out.ok
       /\ encodeCall.out.v[Len(encodeCall.out.v)] = 46
       /\ Len(Split(encodeCall.out.v)) = 3
       /\ Split(encodeCall.out.v)[3] = <<>>
  /\ (Verified /\ verifyCall.secret # <<>> /\ Len(Split(givenToken)) = 3
        /\ TokenHeader.ok /\ Get(TokenHeader.v, ALG) = JStr(S("none"))) =>
       (VerifyResult.isValid <=> Split(givenToken)[3] = <<>>)

\* C26 witness: a received token whose header alg is 'none' and whose third
\* segment is empty was found valid under a secret that no HMAC accepts.
C26_Witness ==
  /\ origin = "raw"
  /\ Verified
  /\ HasLoneSurrogate(verifyCall.secret)
  /\ Len(Split(givenToken)) = 3
  /\ TokenHeader.ok
  /\ Get(TokenHeader.v, ALG) = JStr(S("none"))
  /\ Split(givenToken)[3] = <<>>
  /\ VerifyResult.isValid

\* C27: encodeJwt leaves its arguments unchanged.  When a call ends, with
\* a token or with an exception, the caller's header object has the keys
\* and values it had when the call began (its alg is not overwritten, no
\* typ is added) and so has the payload; the normalized header, the one
\* encoded in a returned token, is a new value with alg and typ.
C27_ArgumentsUnchanged ==
  /\ [][(Encode \/ EncodeDefault) =>
          (givenHeader' = givenHeader /\ givenPayload' = givenPayload)]_vars
  /\ [](EncodedAny =>
          /\ HeaderInToken.ok
          /\ HeaderInToken.v = fullHeader(givenHeader, AlgorithmAsked))

\* C27 witness: encodeJwt returned a token whose header has alg and typ,
\* for a caller's header that has neither, before or after the call.
C27_Witness ==
  /\ EncodedAny
  /\ Keys(givenHeader) \cap {ALG, TYP} = {}
  /\ {ALG, TYP} \subseteq Keys(HeaderInToken.v)

\* Calls i and j were made with the same payload while the clock read the
\* same second.
SameInputs(i, j) ==
  /\ evalCalls[i].payload = evalCalls[j].payload
  /\ NowOf(i) = NowOf(j)

\* C28: the two expiry views agree in one direction, for every payload and
\* clock value: when isTokenExpired is true, getTimeRemaining is 'Expired';
\* and when getTimeRemaining is a seconds, minutes, hours or days text,
\* isTokenExpired is false.
C28_ExpiryViewsAgree ==
  \A i, j \in 1..Len(evalCalls) :
    (IsCallOf(i, "isTokenExpired") /\ IsCallOf(j, "getTimeRemaining")
       /\ SameInputs(i, j)) =>
      /\ ReturnedBool(i, TRUE) => ReturnedText(j, S("Expired"))
      /\ (evalCalls[j].out.ok /\ ~ReturnedText(j, S("Expired"))
            /\ ~ReturnedText(j, S("No expiration"))) => ReturnedBool(i, FALSE)

\* C28 witness: at the instant exp = now the two views were both taken:
\* getTimeRemaining is 'Expired' and isTokenExpired is false.
C28_Witness ==
  \E i, j \in 1..Len(evalCalls) :
    /\ IsCallOf(i, "isTokenExpired")
    /\ IsCallOf(j, "getTimeRemaining")
    /\ SameInputs(i, j)
    /\ Has(i, EXP)
    /\ ClaimOf(i, EXP) = NowOf(i)
    /\ ReturnedBool(i, FALSE)
    /\ ReturnedText(j, S("Expired"))

\* C29: the two variants of jwt-utils are equivalent on their shared
\* operations.  For every input and clock value, decodeJwt, isTokenExpired,
\* isTokenNotYetValid, getTimeRemaining, getTokenAge and
\* getAlgorithmDescription of the decode-only variant return what the
\* function of the same name of the full variant returns.
C29_VariantsAgree ==
  variantCall.called =>
    CASE variantCall.fn = "decodeJwt" ->
           variantCall.result = decodeJwt(variantCall.token)
      [] variantCall.fn = "isTokenExpired" ->
           variantCall.out = isTokenExpired(variantCall.payload, variantCall.ms)
      [] variantCall.fn = "isTokenNotYetValid" ->
           variantCall.out = isTokenNotYetValid(variantCall.payload, variantCall.ms)
      [] variantCall.fn = "getTimeRemaining" ->
           variantCall.out = getTimeRemaining(variantCall.payload, variantCall.ms)
      [] variantCall.fn = "getTokenAge" ->
           variantCall.out = getTokenAge(variantCall.payload, variantCall.ms)
      [] variantCall.fn = "getAlgorithmDescription" ->
           variantCall.description = getAlgorithmDescription(variantCall.alg)

\* C29 witness: the decode-only variant answered isTokenNotYetValid at the
\* instant nbf = now, after the clock had advanced, as the full variant
\* does.
C29_Witness ==
  /\ variantCall.called
  /\ variantCall.fn = "isTokenNotYetValid"
  /\ variantCall.ms > 1000 * StartSecond
  /\ Get(variantCall.payload, NBF) = JNum(variantCall.ms \div 1000)
  /\ variantCall.out = Returned(JBool(FALSE))

\* The decoder effect has run for the current token and secret of the page.
EffectHasRun == origin = "page" /\ ~page.pending

\* C30: after any sequence of token and secret edits, once the decoder
\* effect has run for the current (token, secret): decodedToken and a
\* non-empty error are never both set; decodedToken is non-null iff token
\* is non-empty and decodeJwt(token) succeeded; error is non-empty iff
\* token is non-empty and decodeJwt(token) failed; and signatureValid is
\* non-null only if decodedToken is non-null and secret is non-empty, and
\* then it is verifyJwtSignature(token, secret).isValid.
C30_PageDecoderState ==
  EffectHasRun =>
    /\ ~(page.decodedToken # JNull /\ page.error # NoError)
    /\ page.decodedToken # JNull
         <=> (page.token # <<>> /\ decodeJwt(page.token).v.isValid)
    /\ page.error # NoError
         <=> (page.token # <<>> /\ ~decodeJwt(page.token).v.isValid)
    /\ page.signatureValid # JNull =>
         /\ page.decodedToken # JNull
         /\ page.secret # <<>>
         /\ page.signatureValid
              = JBool(verifyJwtSignature(page.token, page.secret).v.isValid)

\* C30 witness: the secret was set to 's' and the token to one that
\* decodeJwt rejects, and the effect has run: the page shows the error and
\* neither a decoded token nor a signature state.
C30_Witness ==
  /\ EffectHasRun
  /\ page.secret = S("s")
  /\ page.token # <<>>
  /\ page.decodedToken = JNull
  /\ page.error # NoError
  /\ page.signatureValid = JNull

=============================================================================
